---- MODULE Spec2Model ----
(***************************************************************************)
(* A model of the spectral core of colorspace-rs: the VSPD container       *)
(* (src/src/vspd.rs), its shape transforms, the Sprague interpolator and   *)
(* the constant extrapolator (src/src/interpolation.rs).                   *)
(*                                                                         *)
(* Numbers.  The code computes in f64.  The model computes in exact        *)
(* arithmetic: a wavelength is an integer count of half nanometres (so     *)
(* that intervals such as 5.5 nm exist), a sample value is a rational      *)
(* <<n, d>> in lowest terms with d > 0.  Rounding error is therefore not   *)
(* modelled, and the 2-ulp / 1e-11 comparison of calculate_interval is     *)
(* exact equality.                                                         *)
(***************************************************************************)
EXTENDS Integers, Sequences, FiniteSets, TLC

VARIABLES
    spd,      \* the VSPD returned by the last operation (NoVSPD when none)
    recv,     \* the receiver (self) of the last operation
    arg,      \* the SpdShape argument of the last operation
    op,       \* the name of the last operation
    failed,   \* TRUE when the last operation panicked and returned nothing
    steps,    \* the number of transforms applied since construction
    xyz,      \* the tristimulus value returned by the last conversion
    path,     \* the arm of to_xyz's match the last to_xyz took
    given,    \* the samples or values handed to the constructor, or the
              \* matrix handed to an inversion
    calc,     \* the arguments and the result of the last numeric routine
    shared,   \* the VSPD, illuminant and CMF that concurrent callers borrow
    calls     \* for each caller, the call it has in flight and its result

vars == <<spd, recv, arg, op, failed, steps, xyz, path, given, calc, shared, calls>>

-----------------------------------------------------------------------------
(* Exact rational arithmetic standing in for f64.                          *)

Abs(a) == IF a < 0 THEN -a ELSE a

RECURSIVE GCD(_, _)
GCD(a, b) == IF b = 0 THEN a ELSE GCD(b, a % b)

\* the rational n/d in lowest terms, d > 0
Rat(n, d) ==
    LET g == GCD(Abs(n), Abs(d))
        s == IF d < 0 THEN -1 ELSE 1
    IN  <<s * (n \div g), s * (d \div g)>>

R(n) == <<n, 1>>

RAdd(a, b) ==
    LET g == GCD(a[2], b[2])
    IN  Rat(a[1] * (b[2] \div g) + b[1] * (a[2] \div g), a[2] * (b[2] \div g))

RNeg(a) == <<-a[1], a[2]>>

RSub(a, b) == RAdd(a, RNeg(b))

RMul(a, b) ==
    IF a[1] = 0 \/ b[1] = 0 THEN <<0, 1>>
    ELSE LET g1 == GCD(Abs(a[1]), b[2])
             g2 == GCD(Abs(b[1]), a[2])
         IN  <<(a[1] \div g1) * (b[1] \div g2), (a[2] \div g2) * (b[2] \div g1)>>

\* a / b for b # 0
RDiv(a, b) == RMul(a, Rat(b[2], b[1]))

\* c * a for an integer c
RScale(c, a) == RMul(R(c), a)

RECURSIVE RPow(_, _)
RPow(a, k) == IF k = 0 THEN R(1) ELSE RMul(a, RPow(a, k - 1))

\* the sum of s[lo .. hi]; exact addition is associative, so the sum is
\* taken by halves to keep the recursion shallow
RECURSIVE RSumRange(_, _, _)
RSumRange(s, lo, hi) ==
    IF lo > hi THEN R(0)
    ELSE IF lo = hi THEN s[lo]
    ELSE LET mid == (lo + hi) \div 2
         IN  RAdd(RSumRange(s, lo, mid), RSumRange(s, mid + 1, hi))

\* iter().sum()
RSum(s) == RSumRange(s, 1, Len(s))

\* the product of s[lo .. hi]
RECURSIVE RProdRange(_, _, _)
RProdRange(s, lo, hi) ==
    IF lo > hi THEN R(1)
    ELSE IF lo = hi THEN s[lo]
    ELSE LET mid == (lo + hi) \div 2
         IN  RMul(RProdRange(s, lo, mid), RProdRange(s, mid + 1, hi))

RProd(s) == RProdRange(s, 1, Len(s))

\* a wavelength given in nanometres, in the model's half-nanometre units
Nm(n) == 2 * n

\* f64 quotient a/b converted with to_usize(): truncation toward zero, and
\* None (here -1) when the quotient is <= -1 or not finite (b = 0)
ToUsize(a, b) ==
    IF b = 0 THEN -1
    ELSE LET neg == (a < 0) # (b < 0)
             q   == Abs(a) \div Abs(b)
         IN  IF neg /\ a # 0 THEN (IF q >= 1 THEN -1 ELSE 0) ELSE q

\* f64 quotient a/b converted with `as usize`: truncation, saturating at 0
AsUsize(a, b) ==
    IF b = 0 THEN 0
    ELSE LET neg == (a < 0) # (b < 0)
         IN  IF neg THEN 0 ELSE Abs(a) \div Abs(b)

Min2(a, b) == IF a < b THEN a ELSE b
Max2(a, b) == IF a > b THEN a ELSE b

-----------------------------------------------------------------------------
(* Interval, SpdShape, Sample, VSPD.                                       *)

Uniform(d) == [kind |-> "Uniform", d |-> d]
Varying == [kind |-> "Varying", d |-> 0]

SpdShape(start, end, interval) ==
    [start |-> start, end |-> end, interval |-> interval]

\* SpdShape::new: a uniform shape
SpdShapeNew(start, end, d) == SpdShape(start, end, Uniform(d))

Sample(nm, v) == [nm |-> nm, v |-> v]

VSPD(samples, shape) == [samples |-> samples, shape |-> shape]

NoVSPD == [samples |-> <<>>, shape |-> SpdShape(0, 0, Varying)]

\* VSPD::wavelengths
Wavelengths(v) == [k \in 1..Len(v.samples) |-> v.samples[k].nm]

\* VSPD::values
Values(v) == [k \in 1..Len(v.samples) |-> v.samples[k].v]
NoShape == SpdShape(0, 0, Varying)

\* the outcome of an operation that may panic
Ok(v) == [ok |-> TRUE, val |-> v]
Panic == [ok |-> FALSE, val |-> NoVSPD]

\* SpdShape::iter with one wavelength too few: count = to_usize(...) and not
\* to_usize(...) + 1
ShapeIterOneShort(shape) ==
    IF shape.interval.kind # "Uniform" THEN [ok |-> FALSE, nms |-> <<>>]
    ELSE LET d == shape.interval.d
             q == ToUsize(shape.end - shape.start, d)
         IN  IF q < 0 THEN [ok |-> FALSE, nms |-> <<>>]
             ELSE [ok |-> TRUE,
                   nms |-> [k \in 1..q |-> shape.start + (k - 1) * d]]

\* SpdShape::iter taking a Varying shape for the single wavelength start
\* instead of panicking
ShapeIterVaryingAsPoint(shape) ==
    IF shape.interval.kind # "Uniform"
    THEN [ok |-> TRUE, nms |-> <<shape.start>>]
    ELSE LET d == shape.interval.d
             q == ToUsize(shape.end - shape.start, d)
         IN  IF q < 0 THEN [ok |-> FALSE, nms |-> <<>>]
             ELSE [ok |-> TRUE,
                   nms |-> [k \in 1..(q + 1) |-> shape.start + (k - 1) * d]]

\* SpdShape::iter: the wavelengths start + k * interval, k = 0 .. count - 1,
\* count = to_usize((end - start) / interval) + 1; <<>> with ok = FALSE when
\* the interval is Varying (unreachable!) or to_usize() is None (unwrap)
ShapeIter(shape) ==
    IF shape.interval.kind # "Uniform" THEN [ok |-> FALSE, nms |-> <<>>]
    ELSE LET d == shape.interval.d
             q == ToUsize(shape.end - shape.start, d)
         IN  IF q < 0 THEN [ok |-> FALSE, nms |-> <<>>]
             ELSE [ok |-> TRUE,
                   nms |-> [k \in 1..(q + 1) |-> shape.start + (k - 1) * d]]

\* calculate_interval: the first difference when the differences it compares
\* all equal it; it compares samples[i] - samples[i-1] for i in 1 .. len-2
calculate_interval(samples) ==
    LET assumed == samples[2].nm - samples[1].nm
    IN  IF \A i \in 1..(Len(samples) - 2) :
              samples[i + 1].nm - samples[i].nm = assumed
        THEN Uniform(assumed)
        ELSE Varying

\* calculate_shape: panics below 2 samples
calculate_shape(samples) ==
    SpdShape(samples[1].nm, samples[Len(samples)].nm,
             calculate_interval(samples))

\* VSPD::new accepting a list of one sample
VSPDNewOfOne(samples) ==
    IF Len(samples) < 1 THEN Panic
    ELSE IF Len(samples) = 1
    THEN Ok(VSPD(samples, SpdShape(samples[1].nm, samples[1].nm, Varying)))
    ELSE Ok(VSPD(samples, calculate_shape(samples)))

\* VSPD::new
VSPDNew(samples) ==
    IF Len(samples) < 2 THEN Panic
    ELSE Ok(VSPD(samples, calculate_shape(samples)))

\* VSPD::constant: every wavelength of shape.iter() with the given value
VSPDConstant(shape, value) ==
    LET it == ShapeIter(shape)
    IN  IF ~it.ok \/ Len(it.nms) < 2 THEN Panic
        ELSE Ok(VSPD([k \in 1..Len(it.nms) |-> Sample(it.nms[k], value)], shape))

\* VSPD::from_values: shape.iter() zipped with the values
VSPDFromValues(shape, values) ==
    IF Len(values) < 2 THEN Panic
    ELSE IF shape.interval.kind # "Uniform" THEN Panic
    ELSE IF AsUsize(shape.end - shape.start, shape.interval.d) + 1 # Len(values)
         THEN Panic
    ELSE LET it == ShapeIter(shape)
         IN  IF ~it.ok THEN Panic
             ELSE Ok(VSPD([k \in 1..Min2(Len(it.nms), Len(values)) |->
                              Sample(it.nms[k], values[k])], shape))

\* FromIterator<Sample> for VSPD
VSPDCollect(samples) == VSPDNew(samples)

-----------------------------------------------------------------------------
(* interpolation.rs                                                        *)

\* coeff_c0 with 885 for its first weight
coeff_c0_weight885 == <<885, -1960, 3033, -2648, 1080, -180>>

coeff_c0 == <<884, -1960, 3033, -2648, 1080, -180>>
coeff_c1 == <<508, -540, 488, -367, 144, -24>>
coeff_c2 == <<-24, 144, -367, 488, -540, 508>>
coeff_c3 == <<-180, 1080, -2648, 3033, -1960, 884>>

Reverse(s) == [i \in 1..Len(s) |-> s[Len(s) + 1 - i]]

\* sum of c[k] * vs[k] over the zipped prefix (zip stops at the shorter)
ZipDot(c, vs) ==
    RSum([k \in 1..Min2(Len(c), Len(vs)) |-> RScale(c[k], vs[k])])

\* the knots x and the values y of the interpolator: the samples with two
\* pads on each side at the given spacing, the padded values the dot products
\* of the coefficient rows with the first (last) samples, over 209
SpragueKnots(nms, vs, interval) ==
    [ok |-> TRUE,
     x  |-> <<nms[1] - interval * 2, nms[1] - interval>>
            \o nms
            \o <<nms[Len(nms)] + interval, nms[Len(nms)] + interval * 2>>,
     y  |-> <<RDiv(ZipDot(coeff_c0, vs), R(209)),
              RDiv(ZipDot(coeff_c1, vs), R(209))>>
            \o vs
            \o <<RDiv(ZipDot(Reverse(coeff_c2), Reverse(vs)), R(209)),
                 RDiv(ZipDot(Reverse(coeff_c3), Reverse(vs)), R(209))>>]

\* InterpolatorSprague::new: the spacing is samples[1].nm - samples[0].nm;
\* it panics on samples[1] when the VSPD holds a single sample
SpragueNew(vspd) ==
    IF Len(vspd.samples) < 2 THEN [ok |-> FALSE, x |-> <<>>, y |-> <<>>]
    ELSE SpragueKnots(Wavelengths(vspd), Values(vspd),
                      vspd.samples[2].nm - vspd.samples[1].nm)

\* coeff_a with the first-difference weight of r[i-1] written -15 for -16
coeff_a_weight15(r, i) ==
    LET t(c, k) == RScale(c, r[i + k])
    IN  << r[i],
           RDiv(RSum(<<t(2, -2), t(-15, -1), t(16, 1), t(-2, 2)>>), R(24)),
           RDiv(RSum(<<t(-1, -2), t(16, -1), t(-30, 0), t(16, 1), t(-1, 2)>>),
                R(24)),
           RDiv(RSum(<<t(-9, -2), t(39, -1), t(-70, 0), t(66, 1), t(-33, 2),
                       t(7, 3)>>), R(24)),
           RDiv(RSum(<<t(13, -2), t(-64, -1), t(126, 0), t(-124, 1), t(61, 2),
                       t(-12, 3)>>), R(24)),
           RDiv(RSum(<<t(-5, -2), t(25, -1), t(-50, 0), t(50, 1), t(-25, 2),
                       t(5, 3)>>), R(24)) >>

\* SpragueCoefficients::coeff_a for the 1-based index i of r
coeff_a(r, i) ==
    LET t(c, k) == RScale(c, r[i + k])
    IN  << r[i],
           RDiv(RSum(<<t(2, -2), t(-16, -1), t(16, 1), t(-2, 2)>>), R(24)),
           RDiv(RSum(<<t(-1, -2), t(16, -1), t(-30, 0), t(16, 1), t(-1, 2)>>),
                R(24)),
           RDiv(RSum(<<t(-9, -2), t(39, -1), t(-70, 0), t(66, 1), t(-33, 2),
                       t(7, 3)>>), R(24)),
           RDiv(RSum(<<t(13, -2), t(-64, -1), t(126, 0), t(-124, 1), t(61, 2),
                       t(-12, 3)>>), R(24)),
           RDiv(RSum(<<t(-5, -2), t(25, -1), t(-50, 0), t(50, 1), t(-25, 2),
                       t(5, 3)>>), R(24)) >>

\* iter().position(|t| x < *t): the 0-based index of the first knot above x,
\* -1 for None
Position(xs, x) ==
    LET above == SelectSeq([k \in 1..Len(xs) |-> k], LAMBDA k : x < xs[k])
    IN  IF above = <<>> THEN -1 ELSE Head(above) - 1

\* the knot index evaluate() settles on for position p:
\* (p - 1).max(2).min(len - 4), 0-based
SpragueIndex(interp, p) == Min2(Max2(p - 1, 2), Len(interp.x) - 4)

\* a[0] + a[1] * dx + a[2] * dx^2 + ... + a[5] * dx^5
SpragueQuintic(a, dx) ==
    RSum(<<a[1], RMul(a[2], dx), RMul(a[3], RPow(dx, 2)),
           RMul(a[4], RPow(dx, 3)), RMul(a[5], RPow(dx, 4)),
           RMul(a[6], RPow(dx, 5))>>)

\* the quintic of knot i (1-based) at x, dx = (x - x[i]) / (x[i+1] - x[i])
SpragueAt(interp, x, i) ==
    SpragueQuintic(coeff_a(interp.y, i),
                   Rat(x - interp.x[i], interp.x[i + 1] - interp.x[i]))

\* evaluate() once position() returned p.  ok = FALSE when p is None (unwrap)
\* or 0 (p - 1 underflows usize: a panic in a checked build)
SpragueEvaluateFrom(interp, x, p) ==
    IF p < 1 THEN [ok |-> FALSE, v |-> R(0)]
    ELSE [ok |-> TRUE, v |-> SpragueAt(interp, x, SpragueIndex(interp, p) + 1)]

\* InterpolatorSprague::evaluate
SpragueEvaluate(interp, x) ==
    SpragueEvaluateFrom(interp, x, Position(interp.x, x))

\* ExtrapolatorConstant::evaluate
ExtrapolatorConstantEvaluate(vspd, x) ==
    IF x < vspd.samples[1].nm THEN vspd.samples[1].v
    ELSE vspd.samples[Len(vspd.samples)].v

\* (1.0 - d) * v_i + d * v_(i+1) with d = (x - nm_i) / (nm_(i+1) - nm_i), i
\* 1-based
LinearBetween(samples, i, x) ==
    RAdd(RMul(RSub(R(1), Rat(x - samples[i].nm,
                             samples[i + 1].nm - samples[i].nm)),
              samples[i].v),
         RMul(Rat(x - samples[i].nm, samples[i + 1].nm - samples[i].nm),
              samples[i + 1].v))

\* InterpolatorLinear::evaluate taking the pair after the bracketing one
InterpolatorLinearEvaluateNextPair(spd_, x) ==
    IF x <= spd_.samples[1].nm THEN [ok |-> TRUE, v |-> spd_.samples[1].v]
    ELSE IF x >= spd_.samples[Len(spd_.samples)].nm
    THEN [ok |-> TRUE, v |-> spd_.samples[Len(spd_.samples)].v]
    ELSE IF Position(Wavelengths(spd_), x) + 1 >= Len(spd_.samples)
    THEN [ok |-> FALSE, v |-> R(0)]
    ELSE [ok |-> TRUE,
          v |-> LinearBetween(spd_.samples,
                              Position(Wavelengths(spd_), x) + 1, x)]

\* InterpolatorLinear::evaluate.  ok = FALSE when position() is None
\* (unwrap) or 0 (usize underflow), which needs samples out of order
InterpolatorLinearEvaluate(spd_, x) ==
    IF x <= spd_.samples[1].nm THEN [ok |-> TRUE, v |-> spd_.samples[1].v]
    ELSE IF x >= spd_.samples[Len(spd_.samples)].nm
    THEN [ok |-> TRUE, v |-> spd_.samples[Len(spd_.samples)].v]
    ELSE IF Position(Wavelengths(spd_), x) < 1
    THEN [ok |-> FALSE, v |-> R(0)]
    ELSE [ok |-> TRUE,
          v |-> LinearBetween(spd_.samples, Position(Wavelengths(spd_), x), x)]

-----------------------------------------------------------------------------
(* The shape transforms of VSPD.                                           *)

\* the VSPD of the evaluations ev at the wavelengths nms; a panic when one
\* evaluation panicked
CollectEvaluated(ev, nms, shape) ==
    IF \E k \in 1..Len(ev) : ~ev[k].ok THEN Panic
    ELSE Ok(VSPD([k \in 1..Len(ev) |-> Sample(nms[k], ev[k].v)], shape))

\* shape.iter().map(|nm| Sample::new(nm, interp.evaluate(nm)))
InterpolateOver(interp, it, shape) ==
    IF ~interp.ok \/ ~it.ok THEN Panic
    ELSE CollectEvaluated(
             [k \in 1..Len(it.nms) |-> SpragueEvaluate(interp, it.nms[k])],
             it.nms, shape)

\* interpolate once the shape is clamped
InterpolateTo(self, shape) ==
    InterpolateOver(SpragueNew(self), ShapeIter(shape), shape)

\* VSPD::interpolate: shape.start = shape.start.max(self.start()),
\* shape.end = shape.end.min(self.end())
Interpolate(self, target) ==
    InterpolateTo(self, SpdShape(Max2(target.start, self.shape.start),
                                 Min2(target.end, self.shape.end),
                                 target.interval))

\* the loop `while x < limit { push(x, extrap(x)); x += interval }` for an
\* interval > 0: it pushes x, x + interval, ... while below limit
PushBelow(self, x, limit, interval) ==
    LET count == IF x < limit THEN ((limit - x - 1) \div interval) + 1 ELSE 0
    IN  [k \in 1..count |->
            Sample(x + (k - 1) * interval,
                   ExtrapolatorConstantEvaluate(self, x + (k - 1) * interval))]

\* the loop `while x <= end { push(x, extrap(x)); x += interval }` for an
\* interval > 0
PushUpTo(self, x, end, interval) ==
    LET count == IF x <= end THEN ((end - x) \div interval) + 1 ELSE 0
    IN  [k \in 1..count |->
            Sample(x + (k - 1) * interval,
                   ExtrapolatorConstantEvaluate(self, x + (k - 1) * interval))]

\* VSPD::extrapolate spacing the added samples by the target's interval even
\* when self's is Uniform
ExtrapolateByTargetInterval(self, target) ==
    IF target.interval.kind # "Uniform" \/ target.interval.d <= 0 THEN Panic
    ELSE Ok(VSPD(PushBelow(self, Min2(self.shape.start, target.start),
                           self.shape.start, target.interval.d)
                 \o self.samples
                 \o PushUpTo(self, self.shape.end + target.interval.d,
                             Max2(self.shape.end, target.end),
                             target.interval.d),
                 SpdShapeNew(target.start, target.end, target.interval.d)))

\* VSPD::extrapolate.  With an interval <= 0 the second loop starts at
\* x = self.end() + interval <= end and x never passes end: the call pushes
\* samples until the allocation fails and the process aborts
Extrapolate(self, target) ==
    IF self.shape.interval.kind # "Uniform" /\ target.interval.kind # "Uniform"
    THEN Panic
    ELSE
    LET start    == Min2(self.shape.start, target.start)
        end      == Max2(self.shape.end, target.end)
        interval == IF self.shape.interval.kind = "Uniform"
                    THEN self.shape.interval.d ELSE target.interval.d
    IN  IF interval <= 0 THEN Panic
        ELSE
        Ok(VSPD(PushBelow(self, start, self.shape.start, interval)
                \o self.samples
                \o PushUpTo(self, self.shape.end + interval, end, interval),
                SpdShapeNew(target.start, target.end, interval)))

\* .extrapolate(shape) on what interpolate returned
ThenExtrapolate(i, target) ==
    IF ~i.ok THEN Panic ELSE Extrapolate(i.val, target)

\* VSPD::align
Align(self, target) == ThenExtrapolate(Interpolate(self, target), target)

RECURSIVE SkipWhile(_, _)
SkipWhile(s, start) ==
    IF s # <<>> /\ Head(s).nm < start THEN SkipWhile(Tail(s), start) ELSE s

\* take_while with the bound excluded: |s| s.nm < shape.end
RECURSIVE TakeWhileBelow(_, _)
TakeWhileBelow(s, end) ==
    IF s # <<>> /\ Head(s).nm < end
    THEN <<Head(s)>> \o TakeWhileBelow(Tail(s), end)
    ELSE <<>>

RECURSIVE TakeWhile(_, _)
TakeWhile(s, end) ==
    IF s # <<>> /\ Head(s).nm <= end THEN <<Head(s)>> \o TakeWhile(Tail(s), end)
    ELSE <<>>

\* the VSPD of the samples trim kept; first().unwrap() panics when none is
Trimmed(samples, interval) ==
    IF samples = <<>> THEN Panic
    ELSE Ok(VSPD(samples,
                 SpdShape(samples[1].nm, samples[Len(samples)].nm, interval)))

\* VSPD::trim
Trim(self, target) ==
    Trimmed(TakeWhile(SkipWhile(self.samples, target.start), target.end),
            self.shape.interval)

\* Mul<f64> for &VSPD
Mul(self, rhs) ==
    VSPDCollect([k \in 1..Len(self.samples) |->
                    Sample(self.samples[k].nm, RMul(self.samples[k].v, rhs))])

\* Div<f64> for &VSPD
Div(self, rhs) ==
    VSPDCollect([k \in 1..Len(self.samples) |->
                    Sample(self.samples[k].nm, RDiv(self.samples[k].v, rhs))])

-----------------------------------------------------------------------------
(* The XYZ integration engine of vspd.rs.                                  *)

\* SpdShape::astm_e308: 360 .. 780 nm at 1 nm
astm_e308 == SpdShapeNew(Nm(360), Nm(780), Nm(1))

\* CMF: the three colour-matching functions (crate::cmf is not among the
\* files; modelled from the specification's "three VSPDs over a shared
\* shape")
CMF(x_bar, y_bar, z_bar) == [x_bar |-> x_bar, y_bar |-> y_bar, z_bar |-> z_bar]

\* the CMF of three aligned channels
CMFOf(x, y, z, cmf) ==
    IF ~x.ok \/ ~y.ok \/ ~z.ok THEN [ok |-> FALSE, val |-> cmf]
    ELSE [ok |-> TRUE, val |-> CMF(x.val, y.val, z.val)]

\* CMF::align: every channel aligned to the shape
CMFAlign(cmf, shape) ==
    CMFOf(Align(cmf.x_bar, shape), Align(cmf.y_bar, shape),
          Align(cmf.z_bar, shape), cmf)

\* CMF::shape: the shape the channels share
CMFShape(cmf) == cmf.x_bar.shape

\* a tristimulus value; finite = FALSE when the normalisation divided by 0
XYZ(x, y, z) == [ok |-> TRUE, finite |-> TRUE, x |-> x, y |-> y, z |-> z]
NonFiniteXYZ == [ok |-> TRUE, finite |-> FALSE, x |-> R(0), y |-> R(0), z |-> R(0)]
NoXYZ == [ok |-> FALSE, finite |-> FALSE, x |-> R(0), y |-> R(0), z |-> R(0)]

\* izip!(a, b, c).map(|(s, i, c)| s * i * c * dw).sum()
ZipSum3(a, b, c, dw) ==
    RSum([k \in 1..Min2(Len(a), Min2(Len(b), Len(c))) |->
             RMul(RMul(RMul(a[k], b[k]), c[k]), dw)])

\* a.zip(b).map(|(i, y)| i * y * dw).sum()
ZipSum2Scaled(a, b, dw) ==
    RSum([k \in 1..Min2(Len(a), Len(b)) |-> RMul(RMul(a[k], b[k]), dw)])

\* a.zip(b).map(|(w, r)| w * r).sum()
ZipSum2(a, b) ==
    RSum([k \in 1..Min2(Len(a), Len(b)) |-> RMul(a[k], b[k])])

\* k = 100 / sum; xyz(k * x, k * y, k * z)
Normalised(sum, x, y, z) ==
    IF sum[1] = 0 THEN NonFiniteXYZ
    ELSE XYZ(RMul(RDiv(R(100), sum), x), RMul(RDiv(R(100), sum), y),
             RMul(RDiv(R(100), sum), z))

\* the Riemann sums of spd_to_xyz_integration over the aligned values
RiemannSums(sv, iv, xv, yv, zv, dw) ==
    Normalised(ZipSum2Scaled(iv, yv, dw), ZipSum3(sv, iv, xv, dw),
               ZipSum3(sv, iv, yv, dw), ZipSum3(sv, iv, zv, dw))

\* spd_to_xyz_integration once the five spectra are aligned: it panics on a
\* Varying shape (in SpdShape::iter already), and when an align panicked
IntegrateAligned(cmf_x, cmf_y, cmf_z, illum, s, shape) ==
    IF ~cmf_x.ok \/ ~cmf_y.ok \/ ~cmf_z.ok \/ ~illum.ok \/ ~s.ok THEN NoXYZ
    ELSE IF shape.interval.kind # "Uniform" THEN NoXYZ
    ELSE RiemannSums(Values(s.val), Values(illum.val), Values(cmf_x.val),
                     Values(cmf_y.val), Values(cmf_z.val),
                     Rat(shape.interval.d, Nm(1)))

\* spd_to_xyz_integration: the Riemann sums over the five spectra aligned to
\* the shape
spd_to_xyz_integration(self, illuminant, cmf, shape) ==
    IntegrateAligned(Align(cmf.x_bar, shape), Align(cmf.y_bar, shape),
                     Align(cmf.z_bar, shape), Align(illuminant, shape),
                     Align(self, shape), shape)

\* lagrange_coefficients over the nodes 1 .. n instead of 0 .. n - 1
lagrange_coefficients_nodes_from_one(r, n) ==
    [j \in 1..n |->
        RProd([i \in 1..n |->
                  IF i = j THEN R(1)
                  ELSE RDiv(RSub(r, R(i)), R(j - i))])]

\* lagrange_coefficients(r, n): l_j = product over i # j of (r - i) / (j - i),
\* j = 0 .. n - 1
lagrange_coefficients(r, n) ==
    [j \in 1..n |->
        RProd([i \in 1..n |->
                  IF i = j THEN R(1)
                  ELSE RDiv(RSub(r, R(i - 1)), R(j - i))])]

\* linspace(start, end, steps) for steps >= 2: start + k * delta, k = 0 ..
\* steps - 1, delta = (end - start) / (steps - 1)
linspace(start, end, nsteps) ==
    LET delta == RDiv(RSub(end, start), R(nsteps - 1))
    IN  [k \in 1..nsteps |-> RAdd(RMul(R(k - 1), delta), start)]

\* lagrange_coefficients_astm_e2022(interval, degree), the interval in the
\* model's wavelength unit.  num = interval as usize - 1 rows; ok = FALSE for
\* num < 2, where linspace has no finite step (steps - 1 underflows or
\* divides 0 by 0)
lagrange_coefficients_astm_e2022(interval, degree) ==
    LET num == AsUsize(interval, Nm(1)) - 1
        d   == IF degree = 4 THEN R(1) ELSE R(0)
        inv == Rat(Nm(1), interval)
    IN  IF num < 2 THEN [ok |-> FALSE, rows |-> <<>>]
        ELSE LET rs == linspace(inv, RSub(R(1), inv), num)
             IN  [ok |-> TRUE,
                  rows |-> [k \in 1..num |->
                               lagrange_coefficients(RAdd(rs[k], d), degree)]]

\* one accumulation `w[target] += coef * s[src] * y[src]` of the weighting
\* loops, indices 0-based as in the code
Term(target, coef, src) == [target |-> target, coef |-> coef, src |-> src]

\* "First interval": for j in 0..r_c, for k in 0..3
FirstIntervalTerms(c_c, r_c) ==
    [n \in 1..(r_c * 3) |->
        LET j == (n - 1) \div 3
            k == (n - 1) % 3
        IN  Term(k, c_c[j + 1][k + 1], j + 1)]

\* "Last interval": for j in 0..r_c, for k in (i_cm - 2..i_cm + 1).rev()
LastIntervalTerms(c_c, r_c, i_cm, w_lif) ==
    [n \in 1..(r_c * 3) |->
        LET j == (n - 1) \div 3
            k == i_cm - ((n - 1) % 3)
        IN  Term(k, c_c[r_c - j][i_cm - k + 1], j + w_lif)]

\* "intermediate intervals": for j in 0..(i_c - 3), for k in 0..r_c, the four
\* targets j + 0 .. j + 3 fed from w_i = (r_c + 1) * (j + 1) + 1 + k
IntermediateTerms(c_b, r_c, i_c) ==
    [n \in 1..((i_c - 3) * r_c * 4) |->
        LET j == (n - 1) \div (r_c * 4)
            k == ((n - 1) % (r_c * 4)) \div 4
            m == (n - 1) % 4
        IN  Term(j + m, c_b[k + 1][m + 1], (r_c + 1) * (j + 1) + 1 + k)]

\* the last loop started one index early, on the last measurement point
IncompleteIntervalTermsFromLast(w_c, interval_i, i_cm) ==
    LET from == w_c - ((w_c - 1) % interval_i) - 1
    IN  [n \in 1..(w_c - from) |-> Term(i_cm, R(1), from + n - 1)]

\* "extrapolation of potentially incomplete interval":
\* for j in (w_c - ((w_c - 1) % interval_i))..w_c
IncompleteIntervalTerms(w_c, interval_i, i_cm) ==
    LET from == w_c - ((w_c - 1) % interval_i)
    IN  [n \in 1..(w_c - from) |-> Term(i_cm, R(1), from + n - 1)]

\* iter().step_by(step): the elements at 0-based indices 0, step, 2 * step, ...
StepBy(s, step) ==
    [k \in 1..((Len(s) + step - 1) \div step) |-> s[(k - 1) * step + 1]]

\* the weights of one channel: the products at every interval_i-th
\* wavelength plus the accumulated terms, before normalisation
ChannelWeights(terms, s, y, interval_i, i_c) ==
    LET s0 == StepBy(s, interval_i)
        y0 == StepBy(y, interval_i)
    IN  [t \in 1..i_c |->
            LET mine == SelectSeq(terms, LAMBDA e : e.target = t - 1)
            IN  RAdd(RMul(s0[t], y0[t]),
                     RSum([n \in 1..Len(mine) |->
                              RMul(mine[n].coef,
                                   RMul(s[mine[n].src + 1], y[mine[n].src + 1]))]))]

\* the result of the weighting-factor routines: three weight tables
Weights(w_x, w_y, w_z) ==
    [ok |-> TRUE, finite |-> TRUE, w_x |-> w_x, w_y |-> w_y, w_z |-> w_z]
NoWeights ==
    [ok |-> FALSE, finite |-> FALSE, w_x |-> <<>>, w_y |-> <<>>, w_z |-> <<>>]
NonFiniteWeights ==
    [ok |-> TRUE, finite |-> FALSE, w_x |-> <<>>, w_y |-> <<>>, w_z |-> <<>>]

\* k = 100 / sum of w_y; every weight times k
ScaleWeights(w_x, w_y, w_z, sum) ==
    IF sum[1] = 0 THEN NonFiniteWeights
    ELSE Weights([t \in 1..Len(w_x) |-> RMul(w_x[t], RDiv(R(100), sum))],
                 [t \in 1..Len(w_y) |-> RMul(w_y[t], RDiv(R(100), sum))],
                 [t \in 1..Len(w_z) |-> RMul(w_z[t], RDiv(R(100), sum))])

NormaliseWeights(w_x, w_y, w_z) == ScaleWeights(w_x, w_y, w_z, RSum(w_y))

\* the four loops run over the terms: a panic when a term indexes outside w
\* (i_c entries) or outside s and y (n entries)
Accumulate(terms, s, y_x, y_y, y_z, interval_i, i_c, n) ==
    IF \E q \in 1..Len(terms) :
           \/ terms[q].target < 0 \/ terms[q].target >= i_c
           \/ terms[q].src < 0 \/ terms[q].src >= n
    THEN NoWeights
    ELSE NormaliseWeights(ChannelWeights(terms, s, y_x, interval_i, i_c),
                          ChannelWeights(terms, s, y_y, interval_i, i_c),
                          ChannelWeights(terms, s, y_z, interval_i, i_c))

\* the loops for w_c wavelengths, r_c coefficient rows, i_c intervals and
\* w_lif = w_c - (w_c - 1) % interval_i - 1 - r_c, each a usize: a panic when
\* i_c - 3, i_cm - 2 or w_lif underflows
WeightLoops(y_x, y_y, y_z, s, c_c, c_b, interval_i, w_c, r_c, i_c, w_lif) ==
    IF w_c < 1 \/ i_c < 3 \/ w_lif < 0 THEN NoWeights
    ELSE Accumulate(FirstIntervalTerms(c_c, r_c)
                    \o LastIntervalTerms(c_c, r_c, i_c - 1, w_lif)
                    \o IntermediateTerms(c_b, r_c, i_c)
                    \o IncompleteIntervalTerms(w_c, interval_i, i_c - 1),
                    s, y_x, y_y, y_z, interval_i, i_c,
                    Min2(Len(s), Min2(Len(y_x), Min2(Len(y_y), Len(y_z)))))

\* the tables from the values y_x, y_y, y_z, s and the coefficients c_c, c_b;
\* step_by(0) panics
WeightTables(y_x, y_y, y_z, s, c_c, c_b, interval_i) ==
    IF ~c_c.ok \/ ~c_b.ok \/ interval_i = 0 THEN NoWeights
    ELSE WeightLoops(y_x, y_y, y_z, s, c_c.rows, c_b.rows, interval_i,
                     Len(y_x), Len(c_b.rows),
                     Min2(Len(StepBy(s, interval_i)),
                          Len(StepBy(y_x, interval_i))),
                     Len(y_x) - ((Len(y_x) - 1) % interval_i) - 1
                         - Len(c_b.rows))

\* tristimulus_weighting_factors_astme2022.  It panics on a CMF interval
\* other than 1 nm, on an illuminant interval other than the CMF's, on a
\* Varying shape, and in the loops
tristimulus_weighting_factors_astme2022(cmf, illuminant, shape) ==
    IF \/ CMFShape(cmf).interval # Uniform(Nm(1))
       \/ illuminant.shape.interval # CMFShape(cmf).interval
       \/ shape.interval.kind # "Uniform"
    THEN NoWeights
    ELSE WeightTables(Values(cmf.x_bar), Values(cmf.y_bar), Values(cmf.z_bar),
                      Values(illuminant),
                      lagrange_coefficients_astm_e2022(shape.interval.d, 3),
                      lagrange_coefficients_astm_e2022(shape.interval.d, 4),
                      AsUsize(shape.interval.d, Nm(1)))

\* the slice of the table without the folds: the weights outside the
\* target are dropped
FoldEndsDropping(w, start_index, end_index) ==
    SubSeq(w, start_index + 1, Len(w) - end_index)

\* the two folds of adjust_tristimulus_weighting_factors_astme308 on one
\* table: the first start_index weights added to w[start_index], then the
\* last end_index weights added to w[n - end_index - 1]
FoldEnds(w, start_index, end_index) ==
    LET n  == Len(w)
        w1 == IF start_index = 0 THEN w
              ELSE [w EXCEPT ![start_index + 1] =
                       RAdd(w[start_index + 1],
                            RSum([i \in 1..start_index |-> w[i]]))]
        w2 == IF end_index = 0 THEN w1
              ELSE [w1 EXCEPT ![n - end_index] =
                       RAdd(w1[n - end_index],
                            RSum([i \in 1..end_index |-> w1[n - i + 1]]))]
    IN  SubSeq(w2, start_index + 1, n - end_index)

\* adjust_tristimulus_weighting_factors_astme308: shape_r the table's shape,
\* shape_t the spectrum's.  It panics on a Varying shape_r and on an index or
\* a slice outside the table
adjust_tristimulus_weighting_factors_astme308(w_x, w_y, w_z, shape_r, shape_t) ==
    IF shape_r.interval.kind # "Uniform" THEN NoWeights
    ELSE
    LET r_interval  == shape_r.interval.d
        start_index == AsUsize(shape_t.start - shape_r.start, r_interval)
        end_index   == AsUsize(shape_r.end - shape_t.end, r_interval)
        n           == Len(w_x)
    IN  IF \/ start_index > 0 /\ start_index >= n
           \/ end_index > 0 /\ n - end_index - 1 < 0
           \/ start_index > n - end_index
        THEN NoWeights
        ELSE Weights(FoldEnds(w_x, start_index, end_index),
                     FoldEnds(w_y, start_index, end_index),
                     FoldEnds(w_z, start_index, end_index))

\* the dot products of the adjusted weights with the spectrum's values
WeightedSums(a, sv) ==
    IF ~a.ok THEN NoXYZ
    ELSE XYZ(ZipSum2(a.w_x, sv), ZipSum2(a.w_y, sv), ZipSum2(a.w_z, sv))

\* the weights w adjusted from their own shape (start_w = cmf.shape().start,
\* end_w = start_w + interval * (len - 1)) to the trimmed spectrum's
AdjustAndSum(w, cmfshape, interval, s) ==
    IF ~w.ok THEN NoXYZ
    ELSE IF ~w.finite THEN NonFiniteXYZ
    ELSE WeightedSums(
             adjust_tristimulus_weighting_factors_astme308(
                 w.w_x, w.w_y, w.w_z,
                 SpdShapeNew(cmfshape.start,
                             cmfshape.start + interval * (Len(w.w_x) - 1),
                             interval),
                 s.shape),
             Values(s))

\* the conversion once the illuminant is aligned and the spectrum trimmed
WeightingWith(illum, s, cmf, interval) ==
    IF ~illum.ok \/ ~s.ok THEN NoXYZ
    ELSE AdjustAndSum(
             tristimulus_weighting_factors_astme2022(
                 cmf, illum.val,
                 SpdShapeNew(CMFShape(cmf).start, CMFShape(cmf).end, interval)),
             CMFShape(cmf), interval, s.val)

\* spd_to_xyz_tristimulus_weighting_factors_astme308
spd_to_xyz_tristimulus_weighting_factors_astme308(self, illuminant, cmf) ==
    IF self.shape.interval.kind # "Uniform" THEN NoXYZ
    ELSE WeightingWith(IF illuminant.shape # CMFShape(cmf)
                       THEN Align(illuminant, CMFShape(cmf))
                       ELSE Ok(illuminant),
                       Trim(self, CMFShape(cmf)), cmf, self.shape.interval.d)

\* the arm of to_xyz's match that a spectrum takes: the Varying arm, or the
\* arm of interval.to_usize().unwrap() (which truncates) for a uniform one
ToXyzPath(self) ==
    IF self.shape.interval.kind # "Uniform" THEN "varying"
    ELSE LET u == ToUsize(self.shape.interval.d, Nm(1))
         IN  IF u < 0 THEN "panic"
             ELSE IF u = 1 THEN "integration_1nm"
             ELSE IF u = 5 THEN "integration_5nm"
             ELSE IF u = 10 THEN "weighting_factors"
             ELSE "fallback"

\* the Varying arm once self is aligned to (start, end, 1 nm)
IntegrateVarying(s, illum, cmf) ==
    IF ~s.ok THEN NoXYZ
    ELSE spd_to_xyz_integration(s.val, illum, cmf, s.val.shape)

\* the shape the arms "1", "5" and "_" integrate over
IntegrationShape(taken) ==
    IF taken = "integration_5nm"
    THEN [astm_e308 EXCEPT !.interval = Uniform(Nm(5))]
    ELSE astm_e308

\* to_xyz once illuminant and cmf are aligned to 360 .. 780 nm at 1 nm
ToXyzAligned(self, illum, c, taken) ==
    IF ~illum.ok \/ ~c.ok \/ taken = "panic" THEN NoXYZ
    ELSE IF taken = "varying"
    THEN IntegrateVarying(
             Align(self, SpdShapeNew(self.shape.start, self.shape.end, Nm(1))),
             illum.val, c.val)
    ELSE IF taken = "weighting_factors"
    THEN spd_to_xyz_tristimulus_weighting_factors_astme308(self, illum.val, c.val)
    ELSE spd_to_xyz_integration(self, illum.val, c.val, IntegrationShape(taken))

\* VSPD::to_xyz
to_xyz(self, illuminant, cmf) ==
    ToXyzAligned(self, Align(illuminant, astm_e308), CMFAlign(cmf, astm_e308),
                 ToXyzPath(self))

-----------------------------------------------------------------------------
(* math.rs: Matrix33.  A matrix is its three rows, m[i][j] of the code is  *)
(* At(m, i, j).  The eliminations divide by entries that may be zero, so   *)
(* the entries are f64 values with their non-finite ones: <<0, 0>> is NaN, *)
(* <<1, 0>> and <<-1, 0>> are the infinities.  The sign of a zero is not   *)
(* modelled: x / 0 takes the sign of x.                                    *)

NaN == <<0, 0>>

Sgn(n) == IF n < 0 THEN -1 ELSE IF n > 0 THEN 1 ELSE 0

IsFinite(a) == a[2] # 0

FNeg(a) == <<-a[1], a[2]>>

FAbs(a) == <<Abs(a[1]), a[2]>>

FAdd(a, b) ==
    IF a = NaN \/ b = NaN THEN NaN
    ELSE IF ~IsFinite(a) /\ ~IsFinite(b) THEN (IF a = b THEN a ELSE NaN)
    ELSE IF ~IsFinite(a) THEN a
    ELSE IF ~IsFinite(b) THEN b
    ELSE RAdd(a, b)

FSub(a, b) == FAdd(a, FNeg(b))

FMul(a, b) ==
    IF a = NaN \/ b = NaN THEN NaN
    ELSE IF ~IsFinite(a) \/ ~IsFinite(b)
         THEN (IF a[1] = 0 \/ b[1] = 0 THEN NaN ELSE <<Sgn(a[1]) * Sgn(b[1]), 0>>)
    ELSE RMul(a, b)

FDiv(a, b) ==
    IF a = NaN \/ b = NaN THEN NaN
    ELSE IF ~IsFinite(b) THEN (IF ~IsFinite(a) THEN NaN ELSE R(0))
    ELSE IF b[1] = 0 THEN (IF a[1] = 0 THEN NaN ELSE <<Sgn(a[1]), 0>>)
    ELSE IF ~IsFinite(a) THEN <<Sgn(a[1]) * Sgn(b[1]), 0>>
    ELSE RDiv(a, b)

\* a > b; every comparison with NaN is false
FGt(a, b) ==
    /\ a # NaN
    /\ b # NaN
    /\ IF ~IsFinite(a) /\ ~IsFinite(b) THEN a[1] > b[1]
       ELSE a[1] * b[2] > b[1] * a[2]

\* a == T::zero(); false for NaN
FIsZero(a) == IsFinite(a) /\ a[1] = 0

At(m, i, j) == m[i + 1][j + 1]

\* Matrix33::new
Matrix33(x) == << <<x[1], x[2], x[3]>>, <<x[4], x[5], x[6]>>, <<x[7], x[8], x[9]>> >>

make_identity == Matrix33(<<R(1), R(0), R(0), R(0), R(1), R(0), R(0), R(0), R(1)>>)

Some(m) == [some |-> TRUE, m |-> m]
None == [some |-> FALSE, m |-> <<>>]

determinant(self) ==
    FAdd(FAdd(FMul(At(self, 0, 0),
                   FSub(FMul(At(self, 1, 1), At(self, 2, 2)),
                        FMul(At(self, 1, 2), At(self, 2, 1)))),
              FMul(At(self, 0, 1),
                   FSub(FMul(At(self, 1, 2), At(self, 2, 0)),
                        FMul(At(self, 1, 0), At(self, 2, 2))))),
         FMul(At(self, 0, 2),
              FSub(FMul(At(self, 1, 0), At(self, 2, 1)),
                   FMul(At(self, 1, 1), At(self, 2, 0)))))

\* Mul for Matrix33: m[i][j] += self[i][k] * rhs[k][j] from zero
MatMul(self, rhs) ==
    [i \in 1..3 |->
        [j \in 1..3 |->
            FAdd(FAdd(FAdd(R(0), FMul(self[i][1], rhs[1][j])),
                      FMul(self[i][2], rhs[2][j])),
                 FMul(self[i][3], rhs[3][j]))]]

\* the pivot search of gj_inverse for column i, having looked at rows up to
\* j - 1: it reads self, not the matrix being eliminated
RECURSIVE PivotFrom(_, _, _, _)
PivotFrom(self, i, j, pivot) ==
    IF j >= 3 THEN pivot
    ELSE PivotFrom(self, i, j + 1,
                   IF FGt(FAbs(At(self, j, i)), FAbs(At(self, pivot, i)))
                   THEN j ELSE pivot)

\* rows i and pivot exchanged
SwapRows(m, i, pivot) ==
    [r \in 1..3 |-> IF r = i + 1 THEN m[pivot + 1]
                    ELSE IF r = pivot + 1 THEN m[i + 1]
                    ELSE m[r]]

\* m[j][k] -= f * m[i][k] for k in 0..3
SubtractRow(m, j, f, i) ==
    [r \in 1..3 |->
        IF r = j + 1 THEN [k \in 1..3 |-> FSub(m[r][k], FMul(f, m[i + 1][k]))]
        ELSE m[r]]

\* the k loop on mtx_t and mtx_s
SubtractRows(st, j, f, i) ==
    [t |-> SubtractRow(st.t, j, f, i), s |-> SubtractRow(st.s, j, f, i)]

\* for j in (i + 1)..3 { let f = mtx_t[j][i] / mtx_t[i][i]; ... }
RECURSIVE EliminateBelow(_, _, _)
EliminateBelow(st, i, j) ==
    IF j >= 3 THEN st
    ELSE EliminateBelow(SubtractRows(st, j, FDiv(At(st.t, j, i), At(st.t, i, i)), i),
                        i, j + 1)

\* for j in 0..i { let f = mtx_t[j][i]; ... }
RECURSIVE EliminateAbove(_, _, _)
EliminateAbove(st, i, j) ==
    IF j >= i THEN st
    ELSE EliminateAbove(SubtractRows(st, j, At(st.t, j, i), i), i, j + 1)

\* m[i][j] /= f for j in 0..3
DivideRow(m, i, f) ==
    [r \in 1..3 |-> IF r = i + 1 THEN [k \in 1..3 |-> FDiv(m[r][k], f)] ELSE m[r]]

\* mtx_t[i][j] /= f; mtx_s[i][j] /= f
DivideRows(st, i, f) == [t |-> DivideRow(st.t, i, f), s |-> DivideRow(st.s, i, f)]

\* backward substitution: for i in (0..3).rev()
RECURSIVE BackwardSubstitution(_, _)
BackwardSubstitution(st, i) ==
    IF i < 0 THEN Some(st.s)
    ELSE IF FIsZero(At(st.t, i, i)) THEN None
    ELSE BackwardSubstitution(
             EliminateAbove(DivideRows(st, i, At(st.t, i, i)), i, 0), i - 1)

\* one round of the forward elimination with the pivot row found
ForwardRound(st, i, pivot) ==
    EliminateBelow([t |-> SwapRows(st.t, i, pivot), s |-> SwapRows(st.s, i, pivot)],
                   i, i + 1)

\* forward elimination: for i in 0..2
RECURSIVE ForwardElimination(_, _, _)
ForwardElimination(self, st, i) ==
    IF i >= 2 THEN BackwardSubstitution(st, 2)
    ELSE IF FIsZero(FAbs(At(self, PivotFrom(self, i, i + 1, i), i))) THEN None
    ELSE ForwardElimination(self,
                            ForwardRound(st, i, PivotFrom(self, i, i + 1, i)),
                            i + 1)

gj_inverse(self) ==
    ForwardElimination(self, [t |-> self, s |-> make_identity], 0)

\* x > T::epsilon(), 2^-52: a rational of the model has a numerator and a
\* denominator below 2^31, so it exceeds epsilon exactly when it is positive
ExceedsEpsilon(x) == x[1] > 0

\* *s /= r for every entry
DivideEntries(m, r) == [i \in 1..3 |-> [j \in 1..3 |-> FDiv(m[i][j], r)]]

\* the division of the cofactors by r: all nine entries when |r| >= 1;
\* otherwise each entry while |r| / min_positive_value() > |s|, which for
\* the magnitudes of the model (min_positive_value() is 2^-1022) holds
\* exactly when r is not zero, and None at the first entry when it is
DivideByDeterminant(m, r) ==
    IF FIsZero(r) THEN None ELSE Some(DivideEntries(m, r))

\* the arm of inverse() for a matrix with a general third column
InverseGeneral(self) ==
    DivideByDeterminant(
        Matrix33(<<FSub(FMul(At(self, 1, 1), At(self, 2, 2)), FMul(At(self, 2, 1), At(self, 1, 2))),
                   FSub(FMul(At(self, 2, 1), At(self, 0, 2)), FMul(At(self, 0, 1), At(self, 2, 2))),
                   FSub(FMul(At(self, 0, 1), At(self, 1, 2)), FMul(At(self, 1, 1), At(self, 0, 2))),
                   FSub(FMul(At(self, 2, 0), At(self, 1, 2)), FMul(At(self, 1, 0), At(self, 2, 2))),
                   FSub(FMul(At(self, 0, 0), At(self, 2, 2)), FMul(At(self, 2, 0), At(self, 0, 2))),
                   FSub(FMul(At(self, 1, 0), At(self, 0, 2)), FMul(At(self, 0, 0), At(self, 1, 2))),
                   FSub(FMul(At(self, 1, 0), At(self, 2, 1)), FMul(At(self, 2, 0), At(self, 1, 1))),
                   FSub(FMul(At(self, 2, 0), At(self, 0, 1)), FMul(At(self, 0, 0), At(self, 2, 1))),
                   FSub(FMul(At(self, 0, 0), At(self, 1, 1)), FMul(At(self, 1, 0), At(self, 0, 1)))>>),
        determinant(self))

\* mtx_s[2][0] and mtx_s[2][1] of the other arm, set after the division
WithLastRow(self, res) ==
    IF ~res.some THEN None
    ELSE Some(<<res.m[1], res.m[2],
                <<FSub(FMul(FNeg(At(self, 2, 0)), At(res.m, 0, 0)),
                       FMul(At(self, 2, 1), At(res.m, 1, 0))),
                  FSub(FMul(FNeg(At(self, 2, 0)), At(res.m, 0, 1)),
                       FMul(At(self, 2, 1), At(res.m, 1, 1))),
                  At(res.m, 2, 2)>> >>)

\* the arm of inverse() for a matrix taken to be affine
InverseAffine(self) ==
    WithLastRow(self,
        DivideByDeterminant(
            Matrix33(<<At(self, 1, 1), FNeg(At(self, 0, 1)), R(0),
                       FNeg(At(self, 1, 0)), At(self, 0, 0), R(0),
                       R(0), R(0), R(1)>>),
            FSub(FMul(At(self, 0, 0), At(self, 1, 1)),
                 FMul(At(self, 1, 0), At(self, 0, 1)))))

inverse(self) ==
    IF \/ ExceedsEpsilon(At(self, 0, 2))
       \/ ExceedsEpsilon(At(self, 1, 2))
       \/ ExceedsEpsilon(FAbs(FSub(At(self, 2, 2), R(1))))
    THEN InverseGeneral(self)
    ELSE InverseAffine(self)

-----------------------------------------------------------------------------
(* spectral_power_distribution.rs: SPD, a vector of (wavelength, value)    *)
(* pairs.  A pair is <<nm, v>> with nm a whole number of nanometres and v  *)
(* a rational; s.0 of the code is s[1] and s.1 is s[2].                    *)

\* math::clamp
clamp(x, a, b) == IF x < a THEN a ELSE IF x > b THEN b ELSE x

\* math::clamp(x, 0.0, 1.0) on a rational
ClampUnit(x) == IF x[1] < 0 THEN R(0) ELSE IF x[1] > x[2] THEN R(1) ELSE x

\* math::lerp
lerp(a, b, t) == RAdd(RMul(RSub(R(1), t), a), RMul(t, b))

\* `as i32` on a finite value within the range of i32: truncation toward zero
AsI32(x) == IF x[1] >= 0 THEN x[1] \div x[2] ELSE -((-x[1]) \div x[2])

\* SPD::start
SPDStart(self) == self[1][1]

\* SPD::end
SPDEnd(self) == self[Len(self)][1]

\* SPD::range
SPDRange(self) == SPDEnd(self) - SPDStart(self)

\* SPD::num_samples
num_samples(self) == Len(self)

\* the value between the samples s0 and s1 that value_at picked
ValueBetween(s0, s1, lambda) ==
    IF s0[1] = s1[1] THEN s0[2]
    ELSE lerp(s0[2], s1[2], ClampUnit(Rat(lambda - s0[1], s1[1] - s0[1])))

\* value_at once i0 = (t * num_samples) as i32 is known; a 0-based index i
\* of the code is i + 1 here
ValueAtFrom(self, lambda, i0) ==
    ValueBetween(self[clamp(i0, 0, num_samples(self) - 1) + 1],
                 self[clamp(i0 + 1, 0, num_samples(self) - 1) + 1],
                 lambda)

\* SPD::value_at, for an SPD whose first and last wavelengths differ (the
\* quotient t is not finite otherwise)
value_at(self, lambda) ==
    ValueAtFrom(self, lambda,
                AsI32(RMul(Rat(lambda - SPDStart(self), SPDRange(self)),
                           R(num_samples(self)))))

-----------------------------------------------------------------------------
(* spd_conversion.rs: the conversions of an SPD to XYZ.  The three         *)
(* channels cmf.x_bar, cmf.y_bar and cmf.z_bar are passed one by one.      *)

\* lambda_start: the larger of the two starts
LambdaStart(spd_, x_bar) ==
    IF SPDStart(spd_) > SPDStart(x_bar) THEN SPDStart(spd_) ELSE SPDStart(x_bar)

\* lambda_end: the smaller of the two ends
LambdaEnd(spd_, x_bar) ==
    IF SPDEnd(spd_) < SPDEnd(x_bar) THEN SPDEnd(spd_) ELSE SPDEnd(x_bar)

\* while spd[idx].0 < lambda { idx += 1 } from idx on, 0-based; spd[idx] is
\* read before anything else, so the loop panics (-1) when idx reaches the
\* number of samples.  Both idx_start and idx_end are found this way: the
\* `&& idx_end < spd.num_samples()` of the second loop comes after the read
RECURSIVE IndexOfFirstFrom(_, _, _)
IndexOfFirstFrom(spd_, lambda, idx) ==
    IF idx >= Len(spd_) THEN -1
    ELSE IF spd_[idx + 1][1] < lambda THEN IndexOfFirstFrom(spd_, lambda, idx + 1)
    ELSE idx

\* sum of samp.1 * w.value_at(samp.0) for i in idx_start..idx_end
SumOver(spd_, w, idx_start, idx_end) ==
    RSum([k \in 1..(IF idx_end > idx_start THEN idx_end - idx_start ELSE 0) |->
             RMul(spd_[idx_start + k][2], value_at(w, spd_[idx_start + k][1]))])

\* the loop of spd_to_xyz over idx_start..idx_end
AccumulateXYZ(spd_, x_bar, y_bar, z_bar, idx_start, idx_end) ==
    IF idx_start < 0 \/ idx_end < 0 THEN NoXYZ
    ELSE XYZ(SumOver(spd_, x_bar, idx_start, idx_end),
             SumOver(spd_, y_bar, idx_start, idx_end),
             SumOver(spd_, z_bar, idx_start, idx_end))

spd_to_xyz(spd_, x_bar, y_bar, z_bar) ==
    AccumulateXYZ(spd_, x_bar, y_bar, z_bar,
                  IndexOfFirstFrom(spd_, LambdaStart(spd_, x_bar), 0),
                  IndexOfFirstFrom(spd_, LambdaEnd(spd_, x_bar), 0))

\* sum of w.value_at(samp.0) * samp.1 * illum.value_at(samp.0)
SumOverLit(spd_, w, illum, idx_start, idx_end) ==
    RSum([k \in 1..(IF idx_end > idx_start THEN idx_end - idx_start ELSE 0) |->
             RMul(value_at(w, spd_[idx_start + k][1]),
                  RMul(spd_[idx_start + k][2],
                       value_at(illum, spd_[idx_start + k][1])))])

\* N: sum of cmf.y_bar.value_at(samp.0) * illum.value_at(samp.0)
NormalisationOver(spd_, y_bar, illum, idx_start, idx_end) ==
    RSum([k \in 1..(IF idx_end > idx_start THEN idx_end - idx_start ELSE 0) |->
             RMul(value_at(y_bar, spd_[idx_start + k][1]),
                  value_at(illum, spd_[idx_start + k][1]))])

\* xyz / N; not finite when N is zero
DivideXYZ(x, y, z, N) ==
    IF N[1] = 0 THEN NonFiniteXYZ ELSE XYZ(RDiv(x, N), RDiv(y, N), RDiv(z, N))

\* the loop of spd_to_xyz_with_illuminant over idx_start..idx_end
AccumulateLitXYZ(spd_, x_bar, y_bar, z_bar, illum, idx_start, idx_end) ==
    IF idx_start < 0 \/ idx_end < 0 THEN NoXYZ
    ELSE DivideXYZ(SumOverLit(spd_, x_bar, illum, idx_start, idx_end),
                   SumOverLit(spd_, y_bar, illum, idx_start, idx_end),
                   SumOverLit(spd_, z_bar, illum, idx_start, idx_end),
                   NormalisationOver(spd_, y_bar, illum, idx_start, idx_end))

spd_to_xyz_with_illuminant(spd_, x_bar, y_bar, z_bar, illum) ==
    AccumulateLitXYZ(spd_, x_bar, y_bar, z_bar, illum,
                     IndexOfFirstFrom(spd_, LambdaStart(spd_, x_bar), 0),
                     IndexOfFirstFrom(spd_, LambdaEnd(spd_, x_bar), 0))

-----------------------------------------------------------------------------
(* Inputs.                                                                 *)

\* a sample list from wavelengths in nm and values as rationals
Samples(nms, vs) == [i \in 1..Len(nms) |-> Sample(Nm(nms[i]), vs[i])]

SampleLists ==
    { <<>>,
      Samples(<<380>>, <<R(1)>>),
      Samples(<<380, 400>>, <<R(1), R(2)>>),
      Samples(<<380, 400, 420, 440, 460, 480>>,
              <<Rat(1, 2), Rat(2, 5), Rat(3, 10), Rat(1, 5), Rat(1, 10), R(0)>>),
      Samples(<<380, 400, 450>>, <<R(1), R(2), R(3)>>),
      Samples(<<380, 390, 410, 420>>, <<R(1), R(1), R(2), R(2)>>) }

\* shapes handed to VSPD::constant and VSPD::from_values
ConstructorShapes ==
    { SpdShapeNew(Nm(380), Nm(420), Nm(10)),
      SpdShapeNew(Nm(380), Nm(405), Nm(10)),
      SpdShapeNew(Nm(380), Nm(385), Nm(10)),
      SpdShape(Nm(380), Nm(420), Varying) }

ValueLists ==
    { <<R(1)>>, <<R(1), R(2), R(3)>>, <<R(1), R(1), R(1), R(1), R(1)>> }

\* target shapes handed to interpolate, extrapolate, trim and align
TargetShapes ==
    { SpdShapeNew(Nm(380), Nm(420), Nm(10)),
      SpdShapeNew(Nm(375), Nm(430), Nm(10)),
      SpdShapeNew(Nm(400), Nm(410), Nm(20)),
      SpdShapeNew(Nm(500), Nm(520), Nm(10)),
      SpdShapeNew(Nm(360), Nm(500), Nm(20)),
      SpdShape(Nm(380), Nm(420), Varying) }

Scalars == { R(2) }

\* the longest chain of transforms applied to one constructed VSPD
MaxSteps == 2

\* the largest denominator of a value the model interpolates further
MaxDenominator == 40

\* no numeric routine was called
NoCall == [r |-> R(0), n |-> 0, x |-> 0, res |-> <<>>]

\* nothing is shared yet
NoShared == [self |-> NoVSPD, illuminant |-> NoVSPD, cmf |-> <<>>]

\* the threads that call into the library at the same time
Callers == {"a", "b"}

\* a caller with no call in flight
Idle == [pc |-> "idle", op |-> "none", arg |-> NoShape, k |-> R(0),
         saw |-> NoShared, res |-> <<>>]

Init ==
    /\ spd = NoVSPD
    /\ recv = NoVSPD
    /\ arg = NoShape
    /\ op = "none"
    /\ failed = FALSE
    /\ steps = 0
    /\ xyz = NoXYZ
    /\ path = "none"
    /\ given = <<>>
    /\ calc = NoCall
    /\ shared = NoShared
    /\ calls = [c \in Callers |-> Idle]

\* the state after operation `name` on receiver r with shape argument a
Outcome(name, r, a, res, n) ==
    /\ spd' = res.val
    /\ failed' = ~res.ok
    /\ recv' = r
    /\ arg' = a
    /\ op' = name
    /\ steps' = n
    /\ UNCHANGED <<xyz, path, given, calc, shared, calls>>

\* the state after constructor `name` was handed the list g and the shape a
Constructed(name, a, g, res) ==
    /\ spd' = res.val
    /\ failed' = ~res.ok
    /\ recv' = NoVSPD
    /\ arg' = a
    /\ op' = name
    /\ steps' = 0
    /\ given' = g
    /\ UNCHANGED <<xyz, path, calc, shared, calls>>

New ==
    /\ op = "none"
    /\ \E l \in SampleLists : Constructed("new", NoShape, l, VSPDNew(l))

Collect ==
    /\ op = "none"
    /\ \E l \in SampleLists :
          Constructed("collect", NoShape, l, VSPDCollect(l))

Constant ==
    /\ op = "none"
    /\ \E s \in ConstructorShapes :
          Constructed("constant", s, <<R(1)>>, VSPDConstant(s, R(1)))

FromValues ==
    /\ op = "none"
    /\ \E s \in ConstructorShapes, v \in ValueLists :
          Constructed("from_values", s, v, VSPDFromValues(s, v))

\* a transform may be applied to the VSPD the last operation returned
CanTransform == op # "none" /\ ~failed /\ steps < MaxSteps

\* TLC's integers have 32 bits, and one Sprague evaluation off a knot can
\* multiply a value's denominator by 209 * 24 * q^5: the model interpolates
\* only spectra whose values have denominators up to MaxDenominator.  The
\* rationals have no NaN either: two consecutive samples at one wavelength
\* make dx = 0 / 0 in evaluate(), and the model leaves such spectra alone
Representable(v) ==
    /\ \A k \in 1..Len(v.samples) : v.samples[k].v[2] <= MaxDenominator
    /\ \A k \in 1..(Len(v.samples) - 1) :
           v.samples[k].nm # v.samples[k + 1].nm

\* the targets include the receiver's own shape (interpolate(self.shape()))
InterpolateStep ==
    /\ CanTransform
    /\ Representable(spd)
    /\ \E t \in TargetShapes \cup {spd.shape} :
          Outcome("interpolate", spd, t, Interpolate(spd, t), steps + 1)

ExtrapolateStep ==
    /\ CanTransform
    /\ \E t \in TargetShapes :
          Outcome("extrapolate", spd, t, Extrapolate(spd, t), steps + 1)

TrimStep ==
    /\ CanTransform
    /\ \E t \in TargetShapes : Outcome("trim", spd, t, Trim(spd, t), steps + 1)

AlignStep ==
    /\ CanTransform
    /\ Representable(spd)
    /\ \E t \in TargetShapes : Outcome("align", spd, t, Align(spd, t), steps + 1)

MulStep ==
    /\ CanTransform
    /\ \E k \in Scalars : Outcome("mul", spd, NoShape, Mul(spd, k), steps + 1)

DivStep ==
    /\ CanTransform
    /\ \E k \in Scalars : Outcome("div", spd, NoShape, Div(spd, k), steps + 1)

Next ==
    \/ New
    \/ Collect
    \/ Constant
    \/ FromValues
    \/ InterpolateStep
    \/ ExtrapolateStep
    \/ TrimStep
    \/ AlignStep
    \/ MulStep
    \/ DivStep

Spec == Init /\ [][Next]_vars

-----------------------------------------------------------------------------
(* The conversions to XYZ: a second specification over the same state.     *)

\* the samples at start, start + d, ... (model units) with the given values
SamplesFrom(start, d, vs) ==
    [i \in 1..Len(vs) |-> Sample(start + (i - 1) * d, vs[i])]

Ones(n) == [i \in 1..n |-> R(1)]

\* the spectra handed to to_xyz: perfect diffusers (value 1 at every sample)
\* of each sampling, and two spectra that are not flat
XyzSpectra ==
    { VSPDNew(SamplesFrom(Nm(400), Nm(1), Ones(3))).val,
      VSPDNew(SamplesFrom(Nm(400), Nm(5), Ones(6))).val,
      VSPDNew(SamplesFrom(Nm(400), Nm(5), Ones(3))).val,
      VSPDNew(SamplesFrom(Nm(400), Nm(10), Ones(6))).val,
      VSPDNew(SamplesFrom(Nm(385), Nm(10), Ones(6))).val,
      VSPDNew(SamplesFrom(Nm(400), Nm(2), Ones(6))).val,
      VSPDNew(SamplesFrom(Nm(400), Nm(2), Ones(3))).val,
      VSPDNew(SamplesFrom(Nm(400), 11, Ones(6))).val,
      VSPDNew(SamplesFrom(Nm(400), 21, Ones(6))).val,
      VSPDNew(Samples(<<400, 401, 403, 404, 405, 406>>, Ones(6))).val,
      VSPDNew(Samples(<<400, 401, 403, 404>>, Ones(4))).val,
      VSPDNew(SamplesFrom(Nm(400), Nm(1),
                          <<R(1), R(2), R(3), R(4), R(5), R(6)>>)).val,
      VSPDNew(SamplesFrom(Nm(400), Nm(10),
                          <<R(1), R(2), R(3), R(4), R(5), R(6)>>)).val }

\* an equal-energy illuminant over 360 .. 780 nm at 1 nm
EqualEnergy == VSPDConstant(astm_e308, R(1)).val

\* colour-matching functions over 360 .. 780 nm at 1 nm: x_bar 1 throughout,
\* y_bar 1 below 570 nm and 2 from there, z_bar 2 throughout
StepCMF ==
    CMF(VSPDConstant(astm_e308, R(1)).val,
        VSPDFromValues(astm_e308,
                       [k \in 1..421 |-> IF k <= 210 THEN R(1) ELSE R(2)]).val,
        VSPDConstant(astm_e308, R(2)).val)

\* the domain of the short tables handed to the integration routines
ShortShape == SpdShapeNew(Nm(400), Nm(420), Nm(1))

\* illuminants over 400 .. 420 nm at 1 nm: equal energy, and two that vary
ShortIlluminants ==
    { VSPDConstant(ShortShape, R(1)).val,
      VSPDFromValues(ShortShape, [k \in 1..21 |-> R(1 + (k % 3))]).val,
      VSPDFromValues(ShortShape,
                     [k \in 1..21 |-> IF k <= 5 THEN R(3) ELSE R(1)]).val }

\* colour-matching functions over 400 .. 420 nm at 1 nm
ShortCMF ==
    CMF(VSPDFromValues(ShortShape, [k \in 1..21 |-> R(1 + (k % 2))]).val,
        VSPDFromValues(ShortShape,
                       [k \in 1..21 |-> IF k <= 10 THEN R(1) ELSE R(2)]).val,
        VSPDFromValues(ShortShape, [k \in 1..21 |-> R(k % 3)]).val)

\* the spectra handed to spd_to_xyz_integration: sampled every 1 or 2 nm, so
\* that the shapes below put every evaluation on a knot or half way between
\* two
IntegrationSpectra ==
    { VSPDNew(SamplesFrom(Nm(400), Nm(1), Ones(21))).val,
      VSPDNew(SamplesFrom(Nm(400), Nm(1),
                          <<R(1), R(2), R(3), R(4), R(5), R(6)>>)).val,
      VSPDNew(SamplesFrom(Nm(410), Nm(1),
                          <<R(3), R(1), R(2), R(1), R(3), R(1), R(2)>>)).val,
      VSPDNew(SamplesFrom(Nm(400), Nm(2),
                          <<R(1), R(2), R(3), R(4), R(5), R(6), R(7)>>)).val,
      VSPDNew(SamplesFrom(Nm(400), Nm(2), Ones(3))).val,
      VSPDNew(SamplesFrom(Nm(390), Nm(2),
                          <<R(1), R(2), R(3), R(4), R(5), R(6), R(7), R(8)>>)).val,
      VSPDNew(SamplesFrom(Nm(400), Nm(10), <<R(1), R(2), R(3)>>)).val,
      VSPDNew(Samples(<<400, 401, 403, 404, 405, 406>>, Ones(6))).val }

\* the shapes handed to spd_to_xyz_integration
IntegrationShapes ==
    { ShortShape,
      SpdShapeNew(Nm(400), Nm(420), Nm(2)),
      SpdShapeNew(Nm(400), Nm(420), Nm(10)),
      SpdShapeNew(Nm(404), Nm(416), Nm(1)),
      SpdShapeNew(Nm(410), Nm(440), Nm(2)),
      SpdShape(Nm(400), Nm(420), Varying) }

\* the spectra handed to the weighting-factor conversion: sampled every 3, 4
\* or 5 nm, on and off the grid of the table, inside and beyond its domain
WeightingSpectra ==
    { VSPDNew(SamplesFrom(Nm(400), Nm(3), Ones(7))).val,
      VSPDNew(SamplesFrom(Nm(403), Nm(3),
                          <<R(1), R(2), R(3), R(4), R(5)>>)).val,
      VSPDNew(SamplesFrom(Nm(400), Nm(4),
                          <<R(1), R(2), R(3), R(4), R(5), R(6)>>)).val,
      VSPDNew(SamplesFrom(Nm(400), Nm(5), Ones(5))).val,
      VSPDNew(SamplesFrom(Nm(405), Nm(5), <<R(3), R(2), R(1)>>)).val,
      VSPDNew(SamplesFrom(Nm(402), Nm(5), <<R(3), R(2), R(1)>>)).val,
      VSPDNew(SamplesFrom(Nm(390), Nm(5),
                          <<R(1), R(2), R(3), R(4), R(5), R(6), R(7), R(8)>>)).val,
      VSPDNew(SamplesFrom(Nm(400), Nm(1), Ones(21))).val,
      VSPDNew(Samples(<<400, 401, 403, 404, 405, 406>>, Ones(6))).val }

\* the state after conversion `name` of receiver r with shape argument a
Converted(name, r, a, res, arm) ==
    /\ xyz' = res
    /\ path' = arm
    /\ failed' = ~res.ok
    /\ recv' = r
    /\ arg' = a
    /\ op' = name
    /\ UNCHANGED <<spd, steps, given, calc, shared, calls>>

ToXyzStep ==
    /\ op = "none"
    /\ \E s \in XyzSpectra :
          Converted("to_xyz", s, NoShape, to_xyz(s, EqualEnergy, StepCMF),
                    ToXyzPath(s))

IntegrationStep ==
    /\ op = "none"
    /\ \E s \in IntegrationSpectra, i \in ShortIlluminants, a \in IntegrationShapes :
          Converted("spd_to_xyz_integration", s, a,
                    spd_to_xyz_integration(s, i, ShortCMF, a), "none")

WeightingFactorsStep ==
    /\ op = "none"
    /\ \E s \in WeightingSpectra, i \in ShortIlluminants :
          Converted("spd_to_xyz_tristimulus_weighting_factors_astme308", s, NoShape,
                    spd_to_xyz_tristimulus_weighting_factors_astme308(s, i, ShortCMF),
                    "none")

NextXyz ==
    \/ ToXyzStep
    \/ IntegrationStep
    \/ WeightingFactorsStep

SpecXyz == Init /\ [][NextXyz]_vars

-----------------------------------------------------------------------------
(* Third specification: chains of extrapolate on a constructed VSPD.       *)

\* target shapes handed to the chained extrapolate
ExtrapolationTargets ==
    TargetShapes \cup { SpdShapeNew(Nm(390), Nm(410), Nm(10)) }

\* the longest chain of extrapolate calls
MaxExtrapolations == 3

ExtrapolateAgain ==
    /\ op # "none" /\ ~failed /\ steps < MaxExtrapolations
    /\ \E t \in ExtrapolationTargets :
          Outcome("extrapolate", spd, t, Extrapolate(spd, t), steps + 1)

NextExtrapolate ==
    \/ New
    \/ ExtrapolateAgain

SpecExtrapolate == Init /\ [][NextExtrapolate]_vars

-----------------------------------------------------------------------------
(* Fourth specification: the numeric routines on their own.                *)

\* the arguments r handed to lagrange_coefficients: 0, 0.1, 0.2, ... 3
LagrangeArguments == { Rat(k, 10) : k \in 0..30 }

\* the largest n handed to lagrange_coefficients
MaxDegree == 4

LagrangeStep ==
    /\ op = "none"
    /\ \E r \in LagrangeArguments, n \in 1..MaxDegree :
          /\ calc' = [r |-> r, n |-> n, x |-> 0,
                     res |-> lagrange_coefficients(r, n)]
          /\ op' = "lagrange_coefficients"
          /\ UNCHANGED <<spd, recv, arg, failed, steps, xyz, path, given, shared, calls>>

\* the spectra a Sprague interpolator is built over, each with the step of
\* the wavelengths it is evaluated at: three whose values are affine in the
\* wavelength (the one of tests::interpolate among them), an affine one of
\* four samples, and one that is not affine
SpragueSpectra ==
    { [v |-> VSPDNew(Samples(<<380, 400, 420, 440, 460, 480>>,
                             <<Rat(1, 2), Rat(2, 5), Rat(3, 10), Rat(1, 5),
                               Rat(1, 10), R(0)>>)).val,
       step |-> Nm(10)],
      [v |-> VSPDNew(SamplesFrom(Nm(380), Nm(2),
                                 [k \in 1..7 |-> Rat(10 - k, 20)])).val,
       step |-> 1],
      [v |-> VSPDNew(SamplesFrom(Nm(400), Nm(5),
                                 [k \in 1..6 |-> Rat(k, 4)])).val,
       step |-> Nm(1)],
      [v |-> VSPDNew(SamplesFrom(Nm(380), Nm(2),
                                 [k \in 1..4 |-> Rat(k, 4)])).val,
       step |-> 1],
      [v |-> VSPDNew(SamplesFrom(Nm(380), Nm(2),
                                 <<R(1), R(1), R(2), R(2), R(1), R(1)>>)).val,
       step |-> 1] }

\* the state after InterpolatorSprague::new(v).evaluate(x)
Evaluated(v, x, ev) ==
    /\ calc' = [r |-> R(0), n |-> 0, x |-> x, res |-> <<ev.v>>]
    /\ recv' = v
    /\ failed' = ~ev.ok
    /\ op' = "evaluate"
    /\ UNCHANGED <<spd, arg, steps, xyz, path, given, shared, calls>>

\* evaluate at the wavelengths first, first + step, ... up to the last sample
EvaluateStep ==
    /\ op = "none"
    /\ \E c \in SpragueSpectra :
          \E k \in 0..((c.v.shape.end - c.v.shape.start) \div c.step) :
              Evaluated(c.v, c.v.shape.start + k * c.step,
                        SpragueEvaluate(SpragueNew(c.v),
                                        c.v.shape.start + k * c.step))

\* the spectra a linear interpolator is built over: evenly and unevenly
\* spaced, rising and falling
LinearSpectra ==
    { VSPDNew(Samples(<<380, 400, 420, 440, 460, 480>>,
                      <<Rat(1, 2), Rat(2, 5), Rat(3, 10), Rat(1, 5),
                        Rat(1, 10), R(0)>>)).val,
      VSPDNew(Samples(<<380, 390, 410, 420>>,
                      <<R(1), R(3), R(2), R(2)>>)).val,
      VSPDNew(Samples(<<380, 383>>, <<R(1), R(2)>>)).val }

\* evaluate at every half nanometre from 3 nm below the first sample to 3 nm
\* above the last
LinearStep ==
    /\ op = "none"
    /\ \E v \in LinearSpectra :
          \E x \in (v.shape.start - Nm(3))..(v.shape.end + Nm(3)) :
              /\ calc' = [r |-> R(0), n |-> 0, x |-> x,
                          res |-> <<InterpolatorLinearEvaluate(v, x).v>>]
              /\ recv' = v
              /\ failed' = ~InterpolatorLinearEvaluate(v, x).ok
              /\ op' = "linear_evaluate"
              /\ UNCHANGED <<spd, arg, steps, xyz, path, given, shared, calls>>

\* the rows the matrices handed to the inversions are made of
MatrixRows ==
    { <<R(1), R(0), R(0)>>, <<R(0), R(1), R(0)>>, <<R(0), R(0), R(1)>>,
      <<R(1), R(1), R(0)>>, <<R(1), R(0), R(-1)>>, <<R(-1), R(0), R(1)>>,
      <<R(2), R(0), R(0)>>, <<R(1), R(1), R(1)>> }

\* the matrices handed to the inversions
Matrices == { <<a, b, c>> : a \in MatrixRows, b \in MatrixRows, c \in MatrixRows }

\* the state after inversion `name` of m returned res
Inverted(name, m, res) ==
    /\ calc' = [r |-> R(0), n |-> 0, x |-> 0, res |-> <<res>>]
    /\ given' = m
    /\ op' = name
    /\ UNCHANGED <<spd, recv, arg, failed, steps, xyz, path, shared, calls>>

InverseStep ==
    /\ op = "none"
    /\ \E m \in Matrices : Inverted("inverse", m, inverse(m))

GjInverseStep ==
    /\ op = "none"
    /\ \E m \in Matrices : Inverted("gj_inverse", m, gj_inverse(m))

\* the SPDs value_at is called on: the one of tests::it_works, one of two
\* samples and one of five
UniformSPDs ==
    { << <<400, R(1)>>, <<500, R(2)>>, <<600, R(3)>>, <<700, R(4)>> >>,
      << <<400, R(1)>>, <<500, R(3)>> >>,
      << <<400, R(2)>>, <<410, R(1)>>, <<420, R(1)>>, <<430, R(4)>>, <<440, R(2)>> >> }

\* the wavelengths value_at is asked for: every 5 nm from 20 nm below the
\* first sample to 20 nm above the last
Lambdas(s) == { l \in (SPDStart(s) - 20)..(SPDEnd(s) + 20) : l % 5 = 0 }

ValueAtStep ==
    /\ op = "none"
    /\ \E s \in UniformSPDs :
          \E lambda \in Lambdas(s) :
              /\ calc' = [r |-> R(0), n |-> 0, x |-> lambda,
                          res |-> <<value_at(s, lambda)>>]
              /\ given' = s
              /\ op' = "value_at"
              /\ UNCHANGED <<spd, recv, arg, failed, steps, xyz, path, shared, calls>>

\* the weight tables handed to adjust_tristimulus_weighting_factors_astme308:
\* x, y and z weights over the same grid
WeightTriples ==
    { << <<R(1), R(2), R(3), R(4), R(5)>>,
         <<Rat(1, 2), R(0), R(-1), Rat(3, 2), R(2)>>,
         <<R(0), R(0), R(7), R(1), R(0)>> >>,
      << <<R(3), R(1), R(4), R(1)>>,
         <<R(1), R(1), R(1), R(1)>>,
         <<Rat(1, 3), R(2), R(-2), R(5)>> >> }

\* the first wavelength and the interval of every table: 400 nm, 5 nm
TableStart == Nm(400)
TableInterval == Nm(5)

\* shape_r of a table of n weights
TableShape(n) ==
    SpdShapeNew(TableStart, TableStart + TableInterval * (n - 1), TableInterval)

\* the bounds of shape_t: on the grid of the table and off it, inside its
\* domain and beyond it
TargetBounds ==
    { Nm(390), Nm(395), Nm(400), Nm(402), Nm(405), Nm(410), Nm(415), Nm(417),
      Nm(420), Nm(425) }

AdjustStep ==
    /\ op = "none"
    /\ \E w \in WeightTriples, a \in TargetBounds, b \in TargetBounds :
          /\ a <= b
          /\ calc' = [r |-> R(0), n |-> 0, x |-> 0,
                      res |-> <<adjust_tristimulus_weighting_factors_astme308(
                                    w[1], w[2], w[3], TableShape(Len(w[1])),
                                    SpdShapeNew(a, b, TableInterval))>>]
          /\ given' = w
          /\ recv' = [NoVSPD EXCEPT !.shape = TableShape(Len(w[1]))]
          /\ arg' = SpdShapeNew(a, b, TableInterval)
          /\ op' = "adjust_tristimulus_weighting_factors_astme308"
          /\ UNCHANGED <<spd, failed, steps, xyz, path, shared, calls>>

\* the numbers of wavelengths of the 1 nm tables handed to
\* tristimulus_weighting_factors_astme2022
WavelengthCounts == 7..13

\* the measurement intervals, in nanometres
MeasurementIntervals == 3..5

\* the shape of a 1 nm table of w_c wavelengths from 400 nm
OneNmShape(w_c) == SpdShapeNew(Nm(400), Nm(400 + w_c - 1), Nm(1))

\* the illuminant of the tables: 1, 2, 3, 1, 2, 3, ...
RampValues(w_c) == [k \in 1..w_c |-> R(1 + ((k - 1) % 3))]

\* a CMF that singles out the wavelength of 0-based index i: x_bar is 1
\* there and 0 elsewhere, z_bar twice x_bar, y_bar 1 throughout
SinglingOut(w_c, i) ==
    CMF(VSPDFromValues(OneNmShape(w_c),
                       [k \in 1..w_c |-> IF k = i + 1 THEN R(1) ELSE R(0)]).val,
        VSPDConstant(OneNmShape(w_c), R(1)).val,
        VSPDFromValues(OneNmShape(w_c),
                       [k \in 1..w_c |-> IF k = i + 1 THEN R(2) ELSE R(0)]).val)

WeightsStep ==
    /\ op = "none"
    /\ \E w_c \in WavelengthCounts, interval \in MeasurementIntervals :
          \E i \in 0..(w_c - 1) :
              /\ calc' = [r |-> R(0), n |-> interval, x |-> i,
                          res |-> <<tristimulus_weighting_factors_astme2022(
                                        SinglingOut(w_c, i),
                                        VSPDFromValues(OneNmShape(w_c),
                                                       RampValues(w_c)).val,
                                        SpdShapeNew(Nm(400), Nm(400 + w_c - 1),
                                                    Nm(interval)))>>]
              /\ given' = RampValues(w_c)
              /\ op' = "tristimulus_weighting_factors_astme2022"
              /\ UNCHANGED <<spd, recv, arg, failed, steps, xyz, path, shared, calls>>

\* the VSPDs an interpolator is constructed over: two to eight samples,
\* 5 nm or 10 nm apart, on a line, on a parabola and on a zigzag
KnotSpectra ==
    { VSPDNew(SamplesFrom(Nm(380), h, [k \in 1..n |-> R(k)])).val :
        n \in 2..8, h \in {Nm(5), Nm(10)} }
    \cup { VSPDNew(SamplesFrom(Nm(380), h, [k \in 1..n |-> Rat(k * k, 2)])).val :
             n \in 2..8, h \in {Nm(5), Nm(10)} }
    \cup { VSPDNew(SamplesFrom(Nm(380), h, [k \in 1..n |-> R(1 + (k % 2))])).val :
             n \in 2..8, h \in {Nm(5), Nm(10)} }

SpragueNewStep ==
    /\ op = "none"
    /\ \E v \in KnotSpectra :
          /\ calc' = [r |-> R(0), n |-> 0, x |-> 0, res |-> <<SpragueNew(v)>>]
          /\ recv' = v
          /\ op' = "sprague_new"
          /\ UNCHANGED <<spd, arg, failed, steps, xyz, path, given, shared, calls>>

\* the SPDs converted: evenly and unevenly spaced, each value a different
\* power of two, so that a sum of values tells which samples are in it
ConvertedSPDs ==
    { << <<400, R(1)>>, <<410, R(2)>>, <<420, R(4)>>, <<430, R(8)>>, <<440, R(16)>> >>,
      << <<380, R(1)>>, <<390, R(2)>>, <<400, R(4)>>, <<410, R(8)>>, <<420, R(16)>> >>,
      << <<390, R(1)>>, <<400, R(2)>>, <<420, R(4)>>, <<450, R(8)>> >> }

\* the bounds of the colour-matching functions
ChannelStarts == {370, 380, 400, 410}
ChannelEnds == {420, 430, 440, 460}

\* a channel or an illuminant with the value v throughout [lo, hi]
Flat(lo, hi, v) == << <<lo, v>>, <<hi, v>> >>

\* the state after a conversion of s with channels over [lo, hi] returned res
ConvertedSPD(name, s, lo, hi, res) ==
    /\ xyz' = res
    /\ failed' = ~res.ok
    /\ given' = <<s, Flat(lo, hi, R(1)), Flat(lo, hi, R(3)), Flat(lo, hi, R(2)),
                  Flat(360, 780, R(5))>>
    /\ op' = name
    /\ UNCHANGED <<spd, recv, arg, steps, path, calc, shared, calls>>

SpdToXyzStep ==
    /\ op = "none"
    /\ \E s \in ConvertedSPDs, lo \in ChannelStarts, hi \in ChannelEnds :
          ConvertedSPD("spd_to_xyz", s, lo, hi,
                       spd_to_xyz(s, Flat(lo, hi, R(1)), Flat(lo, hi, R(3)),
                                  Flat(lo, hi, R(2))))

SpdToXyzWithIlluminantStep ==
    /\ op = "none"
    /\ \E s \in ConvertedSPDs, lo \in ChannelStarts, hi \in ChannelEnds :
          ConvertedSPD("spd_to_xyz_with_illuminant", s, lo, hi,
                       spd_to_xyz_with_illuminant(
                           s, Flat(lo, hi, R(1)), Flat(lo, hi, R(3)),
                           Flat(lo, hi, R(2)), Flat(360, 780, R(5))))

NextNumeric ==
    \/ ValueAtStep
    \/ SpdToXyzStep
    \/ SpdToXyzWithIlluminantStep
    \/ SpragueNewStep
    \/ WeightsStep
    \/ AdjustStep
    \/ LagrangeStep
    \/ EvaluateStep
    \/ LinearStep
    \/ InverseStep
    \/ GjInverseStep

SpecNumeric == Init /\ [][NextNumeric]_vars

-----------------------------------------------------------------------------
(* Fifth specification: two threads call into the library over one VSPD,   *)
(* one illuminant and one CMF that they hold by shared reference.          *)

\* the VSPDs the callers share
SharedSpectra ==
    { VSPDNew(SamplesFrom(Nm(400), Nm(10),
                          <<R(1), R(3), R(2), R(2), R(1), R(1)>>)).val,
      VSPDNew(SamplesFrom(Nm(400), Nm(5),
                          <<R(2), R(1), R(1), R(3), R(2), R(2)>>)).val }

\* the illuminant the callers share: 400 .. 420 nm at 1 nm
SharedIlluminant ==
    VSPDFromValues(ShortShape, [k \in 1..21 |-> R(1 + (k % 3))]).val

\* the calls a caller may make: the method, its shape argument, its scalar
SharedCalls ==
    { [op |-> "interpolate", arg |-> SpdShapeNew(Nm(380), Nm(420), Nm(10)), k |-> R(0)],
      [op |-> "extrapolate", arg |-> SpdShapeNew(Nm(375), Nm(430), Nm(10)), k |-> R(0)],
      [op |-> "trim", arg |-> SpdShapeNew(Nm(400), Nm(410), Nm(20)), k |-> R(0)],
      [op |-> "align", arg |-> SpdShapeNew(Nm(380), Nm(420), Nm(10)), k |-> R(0)],
      [op |-> "mul", arg |-> NoShape, k |-> R(2)],
      [op |-> "div", arg |-> NoShape, k |-> R(2)],
      [op |-> "to_xyz", arg |-> NoShape, k |-> R(0)] }

\* what the call returns when it reads the values sh through its references
CallOn(call, sh) ==
    CASE call.op = "interpolate" -> Interpolate(sh.self, call.arg)
      [] call.op = "extrapolate" -> Extrapolate(sh.self, call.arg)
      [] call.op = "trim" -> Trim(sh.self, call.arg)
      [] call.op = "align" -> Align(sh.self, call.arg)
      [] call.op = "mul" -> Mul(sh.self, call.k)
      [] call.op = "div" -> Div(sh.self, call.k)
      [] OTHER -> to_xyz(sh.self, sh.illuminant, sh.cmf)

\* a transform that wrote its result over the receiver
SharedAfterInPlace(sh, call, res) ==
    IF call.op # "to_xyz" /\ res.ok THEN [sh EXCEPT !.self = res.val] ELSE sh

\* the shared values once the call has returned: every method takes &self
\* and its arguments by shared reference, collects its samples into a
\* Vec of its own and returns that, so what was borrowed is what it was
SharedAfter(sh, call, res) == sh

\* the program builds its VSPD, illuminant and CMF before the threads start
Share ==
    /\ op = "none"
    /\ shared = NoShared
    /\ \E s \in SharedSpectra :
          shared' = [self |-> s, illuminant |-> SharedIlluminant, cmf |-> ShortCMF]
    /\ UNCHANGED <<spd, recv, arg, op, failed, steps, xyz, path, given, calc, calls>>

\* caller c enters a method with references to the shared values
Begin(c) ==
    /\ shared # NoShared
    /\ calls[c].pc = "idle"
    /\ \E call \in SharedCalls :
          calls' = [calls EXCEPT ![c] =
                       [pc |-> "running", op |-> call.op, arg |-> call.arg,
                        k |-> call.k, saw |-> shared, res |-> <<>>]]
    /\ UNCHANGED <<spd, recv, arg, op, failed, steps, xyz, path, given, calc, shared>>

\* the method of caller c reads through its references and returns
ReturnWith(c, res) ==
    /\ calls' = [calls EXCEPT ![c].pc = "done", ![c].res = res]
    /\ shared' = SharedAfter(shared, calls[c], res)
    /\ UNCHANGED <<spd, recv, arg, op, failed, steps, xyz, path, given, calc>>

Return(c) ==
    /\ calls[c].pc = "running"
    /\ ReturnWith(c, CallOn(calls[c], shared))

NextShared ==
    \/ Share
    \/ \E c \in Callers : Begin(c)
    \/ \E c \in Callers : Return(c)

SpecShared == Init /\ [][NextShared]_vars

-----------------------------------------------------------------------------
(* Properties.                                                             *)

Constructors == {"new", "collect", "constant", "from_values"}
ShapeTransforms == {"interpolate", "extrapolate", "trim", "align"}

\* the last operation returned a VSPD
Returned == op # "none" /\ ~failed

\* every consecutive pair of samples is d apart
EquallySpaced(samples, d) ==
    \A i \in 1..(Len(samples) - 1) : samples[i + 1].nm - samples[i].nm = d

\* C1: every VSPD a constructor or a transform returns holds at least two
\* samples (an operation that would return fewer fails instead).
C1_AtLeastTwoSamples == Returned => Len(spd.samples) >= 2

\* C2: for every VSPD returned by a constructor or by interpolate,
\* extrapolate, trim or align, shape.start is the first sample's wavelength
\* and shape.end the last sample's.
C2_ShapeBoundsAreSampleBounds ==
    (Returned /\ op \in Constructors \cup ShapeTransforms) =>
        /\ spd.shape.start = spd.samples[1].nm
        /\ spd.shape.end = spd.samples[Len(spd.samples)].nm

\* C3: VSPD::new reports Uniform(d), d = second wavelength - first, if and
\* only if every consecutive pair of samples is d apart, and Varying
\* otherwise.
C3_UniformIffEquallySpaced ==
    (Returned /\ op = "new") =>
        LET d == spd.samples[2].nm - spd.samples[1].nm
        IN  IF EquallySpaced(spd.samples, d)
            THEN spd.shape.interval = Uniform(d)
            ELSE spd.shape.interval = Varying

\* the wavelengths start + k * d, k >= 0, that are <= end
RECURSIVE GridFrom(_, _, _)
GridFrom(x, end, d) == IF x <= end THEN <<x>> \o GridFrom(x + d, end, d) ELSE <<>>

Grid(shape) == GridFrom(shape.start, shape.end, shape.interval.d)

\* C4: align(s) with a uniform s returns a VSPD whose shape is s and whose
\* samples sit exactly on the grid of s: one at each s.start + k * s.interval
\* up to s.end, none elsewhere.
C4_AlignMatchesTargetGrid ==
    (Returned /\ op = "align" /\ arg.interval.kind = "Uniform") =>
        /\ spd.shape = arg
        /\ Wavelengths(spd) = Grid(arg)

\* C5: align is idempotent: spd.align(s).align(s) = spd.align(s), shape and
\* samples (evaluated where the values are within the model's precision).
C5_AlignIdempotent ==
    (Returned /\ op = "align" /\ Representable(spd)) =>
        Align(spd, arg) = Ok(spd)

WellFormedUniform(v) ==
    /\ Len(v.samples) >= 2
    /\ v.shape.interval.kind = "Uniform"
    /\ v.shape.interval.d > 0
    /\ EquallySpaced(v.samples, v.shape.interval.d)
    /\ v.shape.start = v.samples[1].nm
    /\ v.shape.end = v.samples[Len(v.samples)].nm

StrictlyIncreasing(samples) ==
    \A i \in 1..(Len(samples) - 1) : samples[i].nm < samples[i + 1].nm

\* the wavelengths the Sprague knots of v cover: from two spacings below the
\* first sample up to, not including, two spacings above the last, the
\* spacing being that of the first two samples
KnotsCover(v, x) ==
    /\ v.samples[1].nm - 2 * (v.samples[2].nm - v.samples[1].nm) <= x
    /\ x < v.samples[Len(v.samples)].nm
               + 2 * (v.samples[2].nm - v.samples[1].nm)

\* every wavelength of v.shape().iter() is covered by the knots
WithinKnots(v) ==
    \A k \in 1..Len(ShapeIter(v.shape).nms) :
        KnotsCover(v, ShapeIter(v.shape).nms[k])

C10_InterpolateNarrows ==
    (Returned /\ op = "interpolate"
        /\ Max2(arg.start, recv.shape.start) <= Min2(arg.end, recv.shape.end)) =>
        LET n == Len(spd.samples)
            d == arg.interval.d
        IN  /\ arg.interval.kind = "Uniform"
            /\ spd.shape.start = Max2(arg.start, recv.shape.start)
            /\ spd.shape.end = Min2(arg.end, recv.shape.end)
            /\ spd.shape.interval = arg.interval
            /\ n >= 1
            /\ \A k \in 1..n :
                  /\ spd.samples[k].nm = spd.shape.start + (k - 1) * d
                  /\ spd.samples[k].nm <= spd.shape.end
                  /\ recv.shape.start <= spd.samples[k].nm
                  /\ spd.samples[k].nm <= recv.shape.end
            /\ spd.shape.start + n * d > spd.shape.end

\* interpolate returned with both ends of the target clamped to self's domain
C10_Witness ==
    /\ Returned /\ op = "interpolate"
    /\ arg.start < recv.shape.start
    /\ arg.end > recv.shape.end
    /\ Len(spd.samples) >= 3

\* the spectrum is a perfect diffuser: 1 at every sample
PerfectDiffuser(v) == \A k \in 1..Len(v.samples) : v.samples[k].v = R(1)

\* C7: for any spectrum whose value is 1 at every sample, to_xyz returns
\* Y = 100, whichever arm of the dispatch the spectrum's interval selects.
C7_PerfectDiffuserYIs100 ==
    (op = "to_xyz" /\ ~failed /\ PerfectDiffuser(recv)) =>
        xyz.finite /\ xyz.y = R(100)

\* the arm the specification gives a spectrum: by its interval d exactly
SpecifiedPath(v) ==
    IF v.shape.interval.kind # "Uniform" THEN "varying"
    ELSE IF v.shape.interval.d = Nm(1) THEN "integration_1nm"
    ELSE IF v.shape.interval.d = Nm(5) THEN "integration_5nm"
    ELSE IF v.shape.interval.d = Nm(10) THEN "weighting_factors"
    ELSE "fallback"

\* C8: to_xyz integrates directly at 1 nm exactly when d = 1, directly at
\* 5 nm exactly when d = 5, takes the weighting-factor path exactly when
\* d = 10 and the interpolate-to-1-nm fallback for every other uniform d; a
\* Varying spectrum takes the Varying arm.
C8_DispatchOnExactInterval ==
    op = "to_xyz" => path = SpecifiedPath(recv)

\* C11: interpolate with a target shape whose interval is Varying fails,
\* whatever the receiver.
C11_InterpolateVaryingTargetFails ==
    (op = "interpolate" /\ arg.interval.kind = "Varying") => failed

\* interpolate was called with a Varying target on a well-formed uniform
\* receiver of six samples, and failed
C11_Witness ==
    /\ op = "interpolate" /\ arg.interval.kind = "Varying"
    /\ WellFormedUniform(recv) /\ Len(recv.samples) >= 6
    /\ failed

\* C12: interpolate and align fail on a receiver whose own interval is
\* Varying (no Sprague interpolator is built over it).
C12_VaryingReceiverFails ==
    (op \in {"interpolate", "align"} /\ recv.shape.interval.kind = "Varying")
        => failed

\* C13: in the result of extrapolate(t) every sample at a wavelength below
\* self's first wavelength has self's first value, every sample above self's
\* last wavelength has self's last value, and self's samples appear
\* unchanged, contiguous and in order.
C13_ExtrapolationIsFlat ==
    (Returned /\ op = "extrapolate") =>
        /\ \A k \in 1..Len(spd.samples) :
              spd.samples[k].nm < recv.samples[1].nm =>
                  spd.samples[k].v = recv.samples[1].v
        /\ \A k \in 1..Len(spd.samples) :
              spd.samples[k].nm > recv.samples[Len(recv.samples)].nm =>
                  spd.samples[k].v = recv.samples[Len(recv.samples)].v
        /\ \E o \in 0..(Len(spd.samples) - Len(recv.samples)) :
              SubSeq(spd.samples, o + 1, o + Len(recv.samples)) = recv.samples

\* C14: the result of extrapolate(t) starts at min(self.start, t.start) and
\* ends at max(self.end, t.end).
C14_ExtrapolateCoversUnion ==
    (Returned /\ op = "extrapolate") =>
        /\ spd.samples[1].nm = Min2(recv.shape.start, arg.start)
        /\ spd.samples[Len(spd.samples)].nm = Max2(recv.shape.end, arg.end)

\* the interval extrapolate(t) uses on receiver v: v's own when Uniform,
\* else t's
ExtrapolationInterval(v, t) ==
    IF v.shape.interval.kind = "Uniform" THEN v.shape.interval.d
    ELSE t.interval.d

\* the samples res[from .. to] are d apart
SpacedBy(res, from, to, d) ==
    \A k \in from..(to - 1) : res[k + 1].nm - res[k].nm = d

\* C15: extrapolate(t) fails when self's and t's intervals are both Varying;
\* when it returns, the samples added below self's and those added above
\* are spaced by self's interval if self is Uniform, by t's if self is
\* Varying.
C15_ExtrapolateSpacing ==
    /\ (/\ op = "extrapolate"
        /\ recv.shape.interval.kind = "Varying"
        /\ arg.interval.kind = "Varying") => failed
    /\ (Returned /\ op = "extrapolate") =>
           \E o \in 0..(Len(spd.samples) - Len(recv.samples)) :
              /\ SubSeq(spd.samples, o + 1, o + Len(recv.samples))
                     = recv.samples
              /\ SpacedBy(spd.samples, 1, o, ExtrapolationInterval(recv, arg))
              /\ SpacedBy(spd.samples, o + Len(recv.samples) + 1,
                          Len(spd.samples), ExtrapolationInterval(recv, arg))

\* extrapolate returned on a Varying receiver with two or more samples added
\* above it at the target's interval
C15_Witness ==
    /\ Returned /\ op = "extrapolate"
    /\ recv.shape.interval.kind = "Varying"
    /\ arg.interval.kind = "Uniform"
    /\ Len(spd.samples) >= Len(recv.samples) + 3
    /\ spd.samples[Len(spd.samples)].nm - spd.samples[Len(spd.samples) - 1].nm
           = arg.interval.d
    /\ Len(recv.samples) >= 2

\* the wavelengths never decrease along the samples
Increasing(samples) ==
    \A i \in 1..(Len(samples) - 1) : samples[i].nm <= samples[i + 1].nm

\* the samples of v at wavelengths within [t.start, t.end], in order
Within(v, t) ==
    SelectSeq(v.samples, LAMBDA s : t.start <= s.nm /\ s.nm <= t.end)

\* C16: trim(t) on a VSPD with increasing wavelengths fails exactly when no
\* sample lies in [t.start, t.end]; otherwise it returns exactly the samples
\* in that range, in order and unchanged, under a shape running from the
\* first to the last retained wavelength.
C16_TrimKeepsRange ==
    (op = "trim" /\ Increasing(recv.samples)) =>
        /\ failed <=> Within(recv, arg) = <<>>
        /\ ~failed =>
              /\ spd.samples = Within(recv, arg)
              /\ spd.shape.start = spd.samples[1].nm
              /\ spd.shape.end = spd.samples[Len(spd.samples)].nm

\* trim dropped samples on both sides and kept one lying on t.end
C16_Witness ==
    /\ Returned /\ op = "trim" /\ Increasing(recv.samples)
    /\ Len(spd.samples) >= 2
    /\ recv.samples[1].nm < arg.start
    /\ recv.samples[Len(recv.samples)].nm > arg.end
    /\ spd.samples[Len(spd.samples)].nm = arg.end

\* C17: no constructor returns a VSPD of fewer than two samples: new and
\* collect fail exactly on a list shorter than two and otherwise keep the
\* list as it is; constant fails when the shape yields fewer than two
\* wavelengths and otherwise holds exactly the shape's wavelengths;
\* from_values fails on fewer than two values and otherwise holds exactly
\* the values.
C17_ConstructorsRefuseShortLists ==
    /\ (Returned /\ op \in Constructors) => Len(spd.samples) >= 2
    /\ op \in {"new", "collect"} =>
           /\ failed <=> Len(given) < 2
           /\ ~failed => spd.samples = given
    /\ op = "constant" =>
           /\ Len(ShapeIter(arg).nms) < 2 => failed
           /\ ~failed => Wavelengths(spd) = ShapeIter(arg).nms
    /\ op = "from_values" =>
           /\ Len(given) < 2 => failed
           /\ ~failed => Values(spd) = given

\* new was handed a list of one sample and failed
C17_Witness ==
    /\ op = "new" /\ Len(given) = 1 /\ failed

\* the receiver's interval is Uniform and none of 1, 5 and 10 nm
NonStandardInterval(v) ==
    /\ v.shape.interval.kind = "Uniform"
    /\ v.shape.interval.d \notin {Nm(1), Nm(5), Nm(10)}

\* C18: to_xyz on a VSPD whose interval is Uniform(d), d none of 1, 5 and
\* 10 nm, does not fail and takes the fallback path.
C18_NonStandardIntervalFallsBack ==
    (op = "to_xyz" /\ NonStandardInterval(recv)) =>
        ~failed /\ path = "fallback"

\* C19: lagrange_coefficients(r, n) returns the n values of the Lagrange
\* basis over the nodes 0 .. n - 1 at r, i.e. the weights l with
\* sum of l[j] * j^m = r^m for every m < n (m = 0: they sum to 1);
\* lagrange_coefficients(0.1, 4) = [0.8265, 0.2755, -0.1305, 0.0285]; at an
\* integer r = i < n the result is 1 at position i and 0 elsewhere.
C19_LagrangeBasis ==
    op = "lagrange_coefficients" =>
        /\ Len(calc.res) = calc.n
        /\ \A m \in 0..(calc.n - 1) :
              RSum([j \in 1..calc.n |->
                       RMul(calc.res[j], RPow(R(j - 1), m))]) = RPow(calc.r, m)
        /\ (calc.r = Rat(1, 10) /\ calc.n = 4) =>
              calc.res = <<Rat(1653, 2000), Rat(551, 2000),
                          Rat(-261, 2000), Rat(57, 2000)>>
        /\ \A i \in 0..(calc.n - 1) :
              calc.r = R(i) =>
                  \A j \in 1..calc.n :
                      calc.res[j] = IF j = i + 1 THEN R(1) ELSE R(0)

\* lagrange_coefficients(0.1, 4) was computed, its third entry negative
C19_Witness ==
    /\ op = "lagrange_coefficients"
    /\ calc.r = Rat(1, 10) /\ calc.n = 4
    /\ calc.res[3] = Rat(-261, 2000)

\* the line through the first two samples of v, at wavelength x
LineThrough(v, x) ==
    RAdd(v.samples[1].v,
         RMul(RSub(v.samples[2].v, v.samples[1].v),
              Rat(x - v.samples[1].nm, v.samples[2].nm - v.samples[1].nm)))

\* the values of v are an affine function of the wavelength
IsAffine(v) ==
    \A k \in 1..Len(v.samples) :
        v.samples[k].v = LineThrough(v, v.samples[k].nm)

\* C20: over a uniformly sampled VSPD of at least six samples whose values
\* are affine in the wavelength, InterpolatorSprague::evaluate(x) returns
\* that affine function at every x of the domain.
C20_SpragueReproducesLines ==
    (/\ op = "evaluate"
     /\ Len(recv.samples) >= 6
     /\ WellFormedUniform(recv)
     /\ IsAffine(recv)) =>
        /\ ~failed
        /\ calc.res = <<LineThrough(recv, calc.x)>>

\* evaluate(390) over the samples 380 -> 0.5 ... 480 -> 0.0 returned 0.45
C20_Witness ==
    /\ op = "evaluate" /\ ~failed
    /\ Len(recv.samples) = 6 /\ recv.samples[1].v = Rat(1, 2)
    /\ IsAffine(recv)
    /\ calc.x = Nm(390)
    /\ calc.res = <<Rat(9, 20)>>

\* a <= b for rationals with positive denominators
RLeq(a, b) == a[1] * b[2] <= b[1] * a[2]

\* r lies between a and b, in either order
RBetween(r, a, b) ==
    \/ RLeq(a, r) /\ RLeq(r, b)
    \/ RLeq(b, r) /\ RLeq(r, a)

\* C21: InterpolatorLinear::evaluate(x) returns the first value for x at or
\* below the first wavelength, the last value for x at or above the last,
\* and otherwise (1 - d) * v_i + d * v_(i+1) for the adjacent pair with
\* nm_i <= x < nm_(i+1), d = (x - nm_i) / (nm_(i+1) - nm_i); so it returns
\* the stored value at every sample wavelength and stays between the two
\* bracketing values.
C21_LinearInterpolation ==
    op = "linear_evaluate" =>
        /\ ~failed
        /\ calc.x <= recv.samples[1].nm =>
              calc.res = <<recv.samples[1].v>>
        /\ calc.x >= recv.samples[Len(recv.samples)].nm =>
              calc.res = <<recv.samples[Len(recv.samples)].v>>
        /\ \A i \in 1..(Len(recv.samples) - 1) :
              (recv.samples[i].nm <= calc.x /\ calc.x < recv.samples[i + 1].nm
                  /\ recv.samples[1].nm < calc.x) =>
                  /\ calc.res =
                        <<RAdd(recv.samples[i].v,
                               RMul(Rat(calc.x - recv.samples[i].nm,
                                        recv.samples[i + 1].nm
                                            - recv.samples[i].nm),
                                    RSub(recv.samples[i + 1].v,
                                         recv.samples[i].v)))>>
                  /\ RBetween(calc.res[1], recv.samples[i].v,
                              recv.samples[i + 1].v)
        /\ \A k \in 1..Len(recv.samples) :
              calc.x = recv.samples[k].nm => calc.res = <<recv.samples[k].v>>

\* evaluate(395) between the unevenly spaced samples 390 -> 3 and 410 -> 2
\* returned 2.75
C21_Witness ==
    /\ op = "linear_evaluate" /\ ~failed
    /\ Len(recv.samples) = 4
    /\ calc.x = Nm(395)
    /\ calc.res = <<Rat(11, 4)>>

Inversions == {"inverse", "gj_inverse"}

\* C23: inverse() and gj_inverse() of a matrix whose determinant is zero
\* return None
C23_SingularHasNoInverse ==
    (op \in Inversions /\ FIsZero(determinant(given))) => ~calc.res[1].some

\* C24: value_at(lambda) is the value on the straight line through the two
\* adjacent samples that bracket lambda, the first sample's value below the
\* range and the last sample's value above it
C24_ValueAtIsLinear ==
    op = "value_at" =>
        /\ calc.x <= SPDStart(given) => calc.res[1] = given[1][2]
        /\ calc.x >= SPDEnd(given) => calc.res[1] = given[Len(given)][2]
        /\ \A i \in 1..(Len(given) - 1) :
              (given[i][1] <= calc.x /\ calc.x <= given[i + 1][1]) =>
                  calc.res[1] = lerp(given[i][2], given[i + 1][2],
                                     Rat(calc.x - given[i][1],
                                         given[i + 1][1] - given[i][1]))

\* C25: a VSPD returned by interpolate, extrapolate, trim or align reports
\* Uniform(d) exactly when all its consecutive wavelengths are d apart, and
\* Varying when its spacing is unequal
C25_TransformIntervalIsSpacing ==
    (Returned /\ op \in ShapeTransforms /\ Len(spd.samples) >= 2) =>
        IF EquallySpaced(spd.samples, spd.samples[2].nm - spd.samples[1].nm)
        THEN spd.shape.interval = Uniform(spd.samples[2].nm - spd.samples[1].nm)
        ELSE spd.shape.interval = Varying

\* the target t lies inside the table's domain r, on its grid
OnGridInside(r, t) ==
    /\ r.start <= t.start /\ t.start <= t.end /\ t.end <= r.end
    /\ (t.start - r.start) % r.interval.d = 0
    /\ (r.end - t.end) % r.interval.d = 0

\* the weights of the table w at the wavelengths below lo, or above hi
MassOutside(w, r, lo, hi) ==
    RSum([i \in 1..Len(w) |->
             IF r.start + (i - 1) * r.interval.d < lo
                \/ r.start + (i - 1) * r.interval.d > hi
             THEN w[i] ELSE R(0)])

\* the table w folded onto the target t, stated wavelength by wavelength:
\* the weight at the k-th target grid point, plus at the first point all the
\* mass below t.start and at the last point all the mass above t.end
FoldedOnto(w, r, t) ==
    [k \in 1..((t.end - t.start) \div r.interval.d + 1) |->
        RAdd(w[(t.start - r.start) \div r.interval.d + k],
             RAdd(IF k = 1 THEN MassOutside(w, r, t.start, r.end) ELSE R(0),
                  IF k = (t.end - t.start) \div r.interval.d + 1
                  THEN MassOutside(w, r, r.start, t.end) ELSE R(0)))]

\* C26: for a target inside the table's domain on its grid,
\* adjust_tristimulus_weighting_factors_astme308 returns one weight per
\* target grid point, the interior weights unchanged, the first increased by
\* the mass below the target and the last by the mass above it, and each
\* channel's returned weights sum to what its input weights sum to
C26_AdjustFoldsEdgeMass ==
    (op = "adjust_tristimulus_weighting_factors_astme308"
     /\ OnGridInside(recv.shape, arg)) =>
        /\ calc.res[1].ok
        /\ calc.res[1].w_x = FoldedOnto(given[1], recv.shape, arg)
        /\ calc.res[1].w_y = FoldedOnto(given[2], recv.shape, arg)
        /\ calc.res[1].w_z = FoldedOnto(given[3], recv.shape, arg)
        /\ RSum(calc.res[1].w_x) = RSum(given[1])
        /\ RSum(calc.res[1].w_y) = RSum(given[2])
        /\ RSum(calc.res[1].w_z) = RSum(given[3])

C26_Witness ==
    /\ op = "adjust_tristimulus_weighting_factors_astme308"
    /\ given[1] = <<R(1), R(2), R(3), R(4), R(5)>>
    /\ arg.start = Nm(405) /\ arg.end = Nm(410)
    /\ calc.res[1].w_x = <<R(3), R(12)>>
    /\ calc.res[1].w_y = <<Rat(1, 2), Rat(5, 2)>>

\* the number of measurement points of a table of w_c wavelengths
MeasurementPoints(w_c, interval) == (w_c - 1) \div interval + 1

\* C27: with three measurement points or more, the four loops of
\* tristimulus_weighting_factors_astme2022 stay within their arrays (the
\* routine returns), there is one weight per measurement point, and every
\* 1 nm index is counted exactly once: with a CMF that singles out index i,
\* the x weights sum to 100 * s[i] / sum(s), the share of that one
\* wavelength, and the z weights to twice that
C27_EveryIndexCountedOnce ==
    (op = "tristimulus_weighting_factors_astme2022"
     /\ MeasurementPoints(Len(given), calc.n) >= 3) =>
        /\ calc.res[1].ok
        /\ calc.res[1].finite
        /\ Len(calc.res[1].w_x) = MeasurementPoints(Len(given), calc.n)
        /\ RSum(calc.res[1].w_y) = R(100)
        /\ RSum(calc.res[1].w_x)
               = RDiv(RMul(R(100), given[calc.x + 1]), RSum(given))
        /\ RSum(calc.res[1].w_z)
               = RDiv(RMul(R(200), given[calc.x + 1]), RSum(given))

\* index 11 of 12 wavelengths at 5 nm lies in the trailing incomplete interval
C27_Witness ==
    /\ op = "tristimulus_weighting_factors_astme2022"
    /\ Len(given) = 12 /\ calc.n = 5 /\ calc.x = 11
    /\ calc.res[1].ok
    /\ Len(calc.res[1].w_x) = 3
    /\ calc.res[1].w_x = <<R(0), R(0), Rat(25, 2)>>

\* the knots of the interpolator: the wavelengths ws with two more on each
\* side, h apart
PaddedKnots(ws, h) ==
    <<ws[1] - 2 * h, ws[1] - h>> \o ws \o <<ws[Len(ws)] + h, ws[Len(ws)] + 2 * h>>

\* pad is 1/209 times the dot product of the six coefficients c with the six
\* values vs[from] .. vs[from + 5]
IsSixSampleDot(pad, c, vs, from) ==
    /\ from >= 1
    /\ from + 5 <= Len(vs)
    /\ pad = RDiv(RSum([k \in 1..6 |-> RScale(c[k], vs[from + k - 1])]), R(209))

\* C28: for a VSPD of any length >= 2, InterpolatorSprague::new adds two
\* knots on each side at the spacing h of the first two samples, and each of
\* its four pad values is 1/209 times the dot product of all six
\* coefficients with six samples: the first six for the start pads, the last
\* six for the end pads
C28_PadsUseSixSamples ==
    (op = "sprague_new" /\ Len(recv.samples) >= 2) =>
        /\ calc.res[1].ok
        /\ calc.res[1].x
              = PaddedKnots(Wavelengths(recv),
                            recv.samples[2].nm - recv.samples[1].nm)
        /\ Len(calc.res[1].y) = Len(recv.samples) + 4
        /\ IsSixSampleDot(calc.res[1].y[1], coeff_c0, Values(recv), 1)
        /\ IsSixSampleDot(calc.res[1].y[2], coeff_c1, Values(recv), 1)
        /\ IsSixSampleDot(calc.res[1].y[Len(recv.samples) + 3], coeff_c2,
                          Values(recv), Len(recv.samples) - 5)
        /\ IsSixSampleDot(calc.res[1].y[Len(recv.samples) + 4], coeff_c3,
                          Values(recv), Len(recv.samples) - 5)

\* the samples of s whose wavelength lies in the overlap of s and w, from
\* the larger start to the smaller end, both included
InOverlap(s, w) ==
    SelectSeq(s, LAMBDA e : /\ e[1] >= SPDStart(s) /\ e[1] >= SPDStart(w)
                            /\ e[1] <= SPDEnd(s) /\ e[1] <= SPDEnd(w))

\* the sum over all of s of samp.1 * w.value_at(samp.0) * illum.value_at(samp.0)
WholeSum(s, w, illum) ==
    RSum([k \in 1..Len(s) |->
             RMul(RMul(s[k][2], value_at(w, s[k][1])), value_at(illum, s[k][1]))])

\* the sum over all of s of y_bar.value_at(samp.0) * illum.value_at(samp.0)
WholeNormalisation(s, y_bar, illum) ==
    RSum([k \in 1..Len(s) |->
             RMul(value_at(y_bar, s[k][1]), value_at(illum, s[k][1]))])

\* an illuminant of 1 throughout
NoIlluminant == Flat(360, 780, R(1))

\* C30: spd_to_xyz and spd_to_xyz_with_illuminant accumulate each sample of
\* the overlap of the SPD's and the CMF's ranges, both ends included, once
\* and no other: the result is the sum (for the second, the sum over the
\* normalisation N) taken over exactly those samples
C30_OverlapAccumulatedOnce ==
    /\ op = "spd_to_xyz" =>
          /\ xyz.ok
          /\ xyz.x = WholeSum(InOverlap(given[1], given[2]), given[2], NoIlluminant)
          /\ xyz.y = WholeSum(InOverlap(given[1], given[2]), given[3], NoIlluminant)
          /\ xyz.z = WholeSum(InOverlap(given[1], given[2]), given[4], NoIlluminant)
    /\ op = "spd_to_xyz_with_illuminant" =>
          /\ xyz.ok
          /\ xyz.finite
          /\ xyz.x = RDiv(WholeSum(InOverlap(given[1], given[2]), given[2], given[5]),
                          WholeNormalisation(InOverlap(given[1], given[2]),
                                             given[3], given[5]))
          /\ xyz.y = RDiv(WholeSum(InOverlap(given[1], given[2]), given[3], given[5]),
                          WholeNormalisation(InOverlap(given[1], given[2]),
                                             given[3], given[5]))
          /\ xyz.z = RDiv(WholeSum(InOverlap(given[1], given[2]), given[4], given[5]),
                          WholeNormalisation(InOverlap(given[1], given[2]),
                                             given[3], given[5]))

\* C29: inverse() and gj_inverse() of a matrix M whose determinant is not
\* zero return Some(N) with M * N the identity
C29_InverseTimesMatrixIsIdentity ==
    (op \in Inversions /\ ~FIsZero(determinant(given)))
        => (calc.res[1].some /\ MatMul(given, calc.res[1].m) = make_identity)

====
